---- MODULE Spec2Model ----
(***************************************************************************)
(* A model of the medipredict data pipeline: the tabular feature encoder,  *)
(* the synthetic cohort generator, the calibration and decision layer of   *)
(* the two ml-models libraries, and the evaluation engine, together with   *)
(* the batch handlers of the home page and of the dashboard page.          *)
(*                                                                         *)
(* Text is a sequence of one-character strings, so that toLowerCase, trim  *)
(* and parseFloat are computed character by character.                     *)
(***************************************************************************)
EXTENDS Integers, Sequences, FiniteSets, TLC

VARIABLES
    headers,      \* encoder input: the header cells
    rows,         \* encoder input: the data rows (each a sequence of cells)
    enc,          \* result of convertToTrainingData, or NotRun
    numSamples,   \* generateSampleData: its argument
    genPc,        \* generateSampleData: "idle", "call", "shuffle", "records" or "done"
    diseases,     \* generateSampleData: the balanced class array being shuffled
    genI,         \* generateSampleData: the loop variable i
    genSeed,      \* generateSampleData: which stream of Math.random() values feeds the features
    genFeatures,  \* generateSampleData: features
    genLabels,    \* generateSampleData: labels
    lib,          \* which of the two ml-models libraries is loaded
    probabilitiesArray,  \* the classifier's raw probability rows, one per input row
    predOut,      \* result of predict or predictBatch, or NotRun
    predictions,  \* calculateConfusionMatrix: the predicted class indices
    actuals,      \* calculateConfusionMatrix: the actual class indices (-1: unmapped)
    evalPc,       \* evaluation: "idle", "call", "matrix", "threw" or "done"
    matrix,       \* result of calculateConfusionMatrix
    metrics,      \* result of calculateMetrics, or NotRun
    page,         \* batch processing: "home", "dashboard" or "none"
    selectedModel,\* batch processing: "logistic" or "neural"
    batchPc,      \* batch processing: "idle", "ready" or "finished"
    batchResult,  \* the page's batchResult state: Null or an object
    batchError,   \* the page's batchError state: Null or a message
    trainedModel,        \* home page state: Null or the model of a training run
    normalizationParams, \* home page state: Null or the min/max of a training run
    trainingLoading,     \* per training dialog ("nav", "page"): its trainingLoading state
    trainingError,       \* per training dialog: Null or a message
    trainingResult,      \* per training dialog: Null or the result shown
    runs,                \* the training runs started so far, in order
    lastCompleted,       \* number of the training run that completed last, 0 if none
    predictLoading,      \* the page's predictLoading state
    predictResult,       \* the page's predictResult state
    predictError,        \* the page's predictError state
    predictPending,      \* dashboard page: handlePredict calls waiting on their timer
    batchFile,           \* the page's batchFile state: Null or a file
    batchLoading,        \* the page's batchLoading state
    batchRuns,           \* the handleBatchProcess calls in flight
    requests,            \* number of inference requests issued so far
    calls,               \* the calls of predict and predictBatch made so far
    content,      \* parseCSV: the text of the file
    csv,          \* result of parseCSV, or NotRun
    trainingFeatures,  \* normalizeFeatures: data.features of the training run
    normalization,     \* result of normalizeFeatures, or NotRun
    featuresArray,     \* the feature vectors of an inference request
    predictInput,      \* predict: the normalized input of the classifier, or NotRun
    batchInput         \* predictBatch: the normalized input of the classifier, or NotRun

encVars == <<headers, rows, enc>>
genVars == <<numSamples, genPc, diseases, genI, genSeed, genFeatures, genLabels>>
predVars == <<lib, probabilitiesArray, predOut>>
evalVars == <<predictions, actuals, evalPc, matrix, metrics>>
batchVars == <<page, selectedModel, batchPc, batchResult, batchError>>
sessionVars == <<trainedModel, normalizationParams, trainingLoading, trainingError,
                 trainingResult, runs, lastCompleted, predictLoading, predictResult,
                 predictError, predictPending, batchFile, batchLoading, batchRuns,
                 requests, calls>>
csvVars == <<content, csv>>
normVars == <<trainingFeatures, normalization, featuresArray, predictInput, batchInput>>
vars == <<encVars, genVars, predVars, evalVars, batchVars, sessionVars, csvVars, normVars>>

NotRun == [state |-> "notrun"]

(***************************************************************************)
(* Bounds of the model.                                                    *)
(***************************************************************************)
MaxRows == 2
MaxSamples == 5
MaxBatch == 3
MaxPairs == 3
MaxEvents == 3

(***************************************************************************)
(* Characters and text.                                                    *)
(***************************************************************************)
UpperChars == <<"A","B","C","D","E","F","G","H","I","J","K","L","M",
                "N","O","P","Q","R","S","T","U","V","W","X","Y","Z">>
LowerChars == <<"a","b","c","d","e","f","g","h","i","j","k","l","m",
                "n","o","p","q","r","s","t","u","v","w","x","y","z">>
DigitChars == <<"0","1","2","3","4","5","6","7","8","9">>
WhiteSpaceChars == {" ", "\t", "\n", "\r"}

Min(S) == CHOOSE x \in S : \A y \in S : x <= y
Max(S) == CHOOSE x \in S : \A y \in S : x >= y

UpperSet == {UpperChars[i] : i \in 1..Len(UpperChars)}

\* a lower-casing that leaves every character as it is
toLowerCaseChar_asIs(c) == c

toLowerCaseChar(c) ==
    IF c \in UpperSet
    THEN LowerChars[CHOOSE i \in 1..Len(UpperChars) : UpperChars[i] = c]
    ELSE c

\* String.prototype.toLowerCase
RECURSIVE toLowerCase(_)
toLowerCase(s) ==
    IF s = <<>> THEN <<>> ELSE <<toLowerCaseChar(Head(s))>> \o toLowerCase(Tail(s))

\* the elements of a sequence of texts, each lower-cased
RECURSIVE toLowerCaseEach(_)
toLowerCaseEach(ss) ==
    IF ss = <<>> THEN <<>> ELSE <<toLowerCase(Head(ss))>> \o toLowerCaseEach(Tail(ss))

(***************************************************************************)
(* JavaScript numbers produced by the encoder: a finite decimal m * 10^-e  *)
(* kept in lowest terms (so that equal numbers are equal records), NaN,    *)
(* or an infinity.  -0 is identified with 0, as === does.                  *)
(***************************************************************************)
RECURSIVE Pow10(_)
Pow10(n) == IF n <= 0 THEN 1 ELSE 10 * Pow10(n - 1)

NaN == [k |-> "nan", m |-> 0, e |-> 0]
Infinity(sign) == [k |-> "inf", m |-> sign, e |-> 0]

RECURSIVE Number(_, _)
Number(m, e) ==
    IF m = 0 THEN [k |-> "num", m |-> 0, e |-> 0]
    ELSE IF e > 0 /\ m % 10 = 0 THEN Number(m \div 10, e - 1)
    ELSE IF e < 0 THEN Number(m * 10, e + 1)
    ELSE [k |-> "num", m |-> m, e |-> e]

Zero == Number(0, 0)
One == Number(1, 0)

\* arithmetic on finite decimals
Times(a, b) == Number(a.m * b.m, a.e + b.e)
AlignedM(a, e) == a.m * Pow10(e - a.e)
Plus(a, b) ==
    LET e == IF a.e > b.e THEN a.e ELSE b.e
    IN  Number(AlignedM(a, e) + AlignedM(b, e), e)
Minus(a, b) == Plus(a, Number(-b.m, b.e))
Greater(a, b) ==
    LET e == IF a.e > b.e THEN a.e ELSE b.e
    IN  AlignedM(a, e) > AlignedM(b, e)
\* Math.floor
Floor(a) == Number(a.m \div Pow10(a.e), 0)
\* Math.max of two numbers
MathMax(a, b) == IF Greater(b, a) THEN b ELSE a

\* Number.isNaN
\* a NaN test that never tells
isNaN_never(v) == FALSE

isNaN(v) == v.k = "nan"

IsDigit(c) == \E i \in 1..Len(DigitChars) : DigitChars[i] = c
DigitValue(c) == (CHOOSE i \in 1..Len(DigitChars) : DigitChars[i] = c) - 1

RECURSIVE SkipWhiteSpace(_, _)
SkipWhiteSpace(s, i) ==
    IF i <= Len(s) /\ s[i] \in WhiteSpaceChars THEN SkipWhiteSpace(s, i + 1) ELSE i

RECURSIVE DigitsEnd(_, _)
DigitsEnd(s, i) ==
    IF i <= Len(s) /\ IsDigit(s[i]) THEN DigitsEnd(s, i + 1) ELSE i

\* the value of the digits s[i..j-1]
RECURSIVE DigitsValue(_, _, _)
DigitsValue(s, i, j) ==
    IF i >= j THEN 0 ELSE DigitsValue(s, i, j - 1) * 10 + DigitValue(s[j - 1])

InfinityText == <<"I","n","f","i","n","i","t","y">>

\* Number.parseFloat: leading white space, an optional sign, then the longest
\* prefix that is a decimal literal (digits, a fraction, an exponent) or
\* "Infinity"; NaN when there is none.
parseFloat(s) ==
    LET i0 == SkipWhiteSpace(s, 1)
        hasSign == i0 <= Len(s) /\ s[i0] \in {"+", "-"}
        sign == IF hasSign /\ s[i0] = "-" THEN -1 ELSE 1
        i1 == IF hasSign THEN i0 + 1 ELSE i0
        i2 == DigitsEnd(s, i1)
        hasDot == i2 <= Len(s) /\ s[i2] = "."
        i3 == IF hasDot THEN DigitsEnd(s, i2 + 1) ELSE i2
        nInt == i2 - i1
        nFrac == IF hasDot THEN i3 - (i2 + 1) ELSE 0
        mant == DigitsValue(s, i1, i2) * Pow10(nFrac)
                  + (IF hasDot THEN DigitsValue(s, i2 + 1, i3) ELSE 0)
        hasE == i3 <= Len(s) /\ s[i3] \in {"e", "E"}
        eSigned == hasE /\ i3 + 1 <= Len(s) /\ s[i3 + 1] \in {"+", "-"}
        j1 == IF eSigned THEN i3 + 2 ELSE i3 + 1
        j2 == IF hasE THEN DigitsEnd(s, j1) ELSE j1
        hasExp == hasE /\ j2 > j1
        expo == IF hasExp
                THEN (IF eSigned /\ s[i3 + 1] = "-" THEN -1 ELSE 1) * DigitsValue(s, j1, j2)
                ELSE 0
    IN  IF i1 + Len(InfinityText) - 1 <= Len(s)
           /\ SubSeq(s, i1, i1 + Len(InfinityText) - 1) = InfinityText
        THEN Infinity(sign)
        ELSE IF nInt + nFrac = 0 THEN NaN
        ELSE Number(sign * mant, nFrac - expo)

(***************************************************************************)
(* The feature encoder.                                                    *)
(***************************************************************************)
featureColumns == <<
    <<"a","g","e">>,
    <<"g","e","n","d","e","r">>,
    <<"r","e","s","i","d","e","n","c","e">>,
    <<"h","o","m","e","m","a","k","e","r">>,
    <<"s","t","u","d","e","n","t">>,
    <<"p","r","o","f","e","s","s","i","o","n","a","l">>,
    <<"m","e","r","c","h","a","n","t">>,
    <<"a","g","r","i","c","u","l","t","u","r","e","_","l","i","v","e","s","t","o","c","k">>,
    <<"v","a","r","i","o","u","s","_","j","o","b","s">>,
    <<"u","n","e","m","p","l","o","y","e","d">>,
    <<"h","o","s","p","i","t","a","l","i","z","a","t","i","o","n","_","d","a","y","s">>,
    <<"b","o","d","y","_","t","e","m","p","e","r","a","t","u","r","e">>,
    <<"f","e","v","e","r">>,
    <<"h","e","a","d","a","c","h","e">>,
    <<"d","i","z","z","i","n","e","s","s">>,
    <<"l","o","s","s","_","o","f","_","a","p","p","e","t","i","t","e">>,
    <<"w","e","a","k","n","e","s","s">>,
    <<"m","y","a","l","g","i","a","s">>,
    <<"a","r","t","h","r","a","l","g","i","a","s">>,
    <<"e","y","e","_","p","a","i","n">>,
    <<"h","e","m","o","r","r","h","a","g","e","s">>,
    <<"v","o","m","i","t","i","n","g">>,
    <<"a","b","d","o","m","i","n","a","l","_","p","a","i","n">>,
    <<"c","h","i","l","l","s">>,
    <<"h","e","m","o","p","t","y","s","i","s">>,
    <<"e","d","e","m","a">>,
    <<"j","a","u","n","d","i","c","e">>,
    <<"b","r","u","i","s","e","s">>,
    <<"p","e","t","e","c","h","i","a","e">>,
    <<"r","a","s","h">>,
    <<"d","i","a","r","r","h","e","a">>,
    <<"r","e","s","p","i","r","a","t","o","r","y","_","d","i","f","f","i","c","u","l","t","y">>,
    <<"i","t","c","h","i","n","g">>,
    <<"h","e","m","a","t","o","c","r","i","t">>,
    <<"h","e","m","o","g","l","o","b","i","n">>,
    <<"r","e","d","_","b","l","o","o","d","_","c","e","l","l","s">>,
    <<"w","h","i","t","e","_","b","l","o","o","d","_","c","e","l","l","s">>,
    <<"n","e","u","t","r","o","p","h","i","l","s">>,
    <<"e","o","s","i","n","o","p","h","i","l","s">>,
    <<"b","a","s","o","p","h","i","l","s">>,
    <<"m","o","n","o","c","y","t","e","s">>,
    <<"l","y","m","p","h","o","c","y","t","e","s">>,
    <<"p","l","a","t","e","l","e","t","s">>,
    <<"A","S","T">>,
    <<"A","L","T">>,
    <<"A","L","P">>,
    <<"t","o","t","a","l","_","b","i","l","i","r","u","b","i","n">>,
    <<"d","i","r","e","c","t","_","b","i","l","i","r","u","b","i","n">>,
    <<"i","n","d","i","r","e","c","t","_","b","i","l","i","r","u","b","i","n">>,
    <<"t","o","t","a","l","_","p","r","o","t","e","i","n","s">>,
    <<"a","l","b","u","m","i","n">>,
    <<"c","r","e","a","t","i","n","i","n","e">>,
    <<"u","r","e","a">>
>>

labelColumn == <<"d","i","a","g","n","o","s","i","s">>

\* headers.findIndex((h) => h.toLowerCase() === col.toLowerCase()): the
\* 0-based index of the first match, -1 when there is none
\* (lowerHs holds the headers already lower-cased, lowerCol the column name)
findIndex(lowerHs, lowerCol) ==
    LET hits == {i \in 1..Len(lowerHs) : lowerHs[i] = lowerCol}
    IN  IF hits = {} THEN -1 ELSE Min(hits) - 1

featureColumnsLower == toLowerCaseEach(featureColumns)

\* featureColumns.map((col) => headers.findIndex(...)), from column f on
RECURSIVE featureIndicesFrom(_, _)
featureIndicesFrom(lowerHs, f) ==
    IF f > Len(featureColumns) THEN <<>>
    ELSE <<findIndex(lowerHs, featureColumnsLower[f])>> \o featureIndicesFrom(lowerHs, f + 1)

\* a property read on the object literal diseaseMap: its own keys, then the
\* keys it inherits from Object.prototype
Undefined == [t |-> "undefined", v |-> 0]
NumberValue(n) == [t |-> "number", v |-> n]
diseaseMap(key) ==
    IF key = <<"d","e","n","g","u","e">> THEN NumberValue(0)
    ELSE IF key = <<"m","a","l","a","r","i","a">> THEN NumberValue(1)
    ELSE IF key = <<"l","e","p","t","o","s","p","i","r","o","s","i","s">> THEN NumberValue(2)
    ELSE IF key = <<"c","o","n","s","t","r","u","c","t","o","r">> THEN [t |-> "function", v |-> 0]
    ELSE IF key = <<"_","_","p","r","o","t","o","_","_">> THEN [t |-> "object", v |-> 0]
    ELSE Undefined

\* the row filter without its every-cell-is-empty case
skipRow_keepEmpty(hs, row) ==
    \/ Len(row) = 0
    \/ Len(row) < Len(hs)

\* the row filter of the encoding loop
skipRow(hs, row) ==
    \/ Len(row) = 0
    \/ \A i \in 1..Len(row) : row[i] = <<>>
    \/ Len(row) < Len(hs)

\* encodeCell without the gender and residence cases: every cell is parsed
encodeCell_parseAll(featureIdx, value) ==
    LET num == parseFloat(value)
    IN  IF isNaN(num) THEN Zero ELSE num

encodeCell(featureIdx, value) ==
    LET columnName == featureColumnsLower[featureIdx]
    IN  IF columnName = <<"g","e","n","d","e","r">>
        THEN (IF toLowerCase(value) = <<"m">> THEN One ELSE Zero)
        ELSE IF columnName = <<"r","e","s","i","d","e","n","c","e">>
        THEN (IF toLowerCase(value) = <<"u","r","b","a","n">>
                 \/ toLowerCase(value) = <<"u","r","b","a","n","a">>
              THEN One ELSE Zero)
        ELSE LET num == parseFloat(value)
             IN  IF isNaN(num) THEN Zero ELSE num

\* featureIndices.map((idx, featureIdx) => ...), from column f on
RECURSIVE encodeRowFrom(_, _, _)
encodeRowFrom(featureIndices, row, f) ==
    IF f > Len(featureIndices) THEN <<>>
    ELSE <<IF featureIndices[f] = -1 THEN Zero
           ELSE encodeCell(f, row[featureIndices[f] + 1])>>
         \o encodeRowFrom(featureIndices, row, f + 1)

\* encodeRow dropping the schema fields no header matches
RECURSIVE encodeRow_dropMissing(_, _)
encodeRow_dropMissing(featureIndices, row) ==
    LET all == encodeRowFrom(featureIndices, row, 1)
        RECURSIVE present(_)
        present(f) ==
            IF f > Len(featureIndices) THEN <<>>
            ELSE (IF featureIndices[f] = -1 THEN <<>> ELSE <<all[f]>>) \o present(f + 1)
    IN  present(1)

encodeRow(featureIndices, row) == encodeRowFrom(featureIndices, row, 1)

extractLabel(labelIndex, row) ==
    LET diagnosis == toLowerCase(row[labelIndex + 1])
        mapped == diseaseMap(diagnosis)
    IN  IF mapped = Undefined THEN NumberValue(0) ELSE mapped

RECURSIVE keptRows(_, _)
keptRows(hs, rs) ==
    IF rs = <<>> THEN <<>>
    ELSE IF skipRow(hs, Head(rs)) THEN keptRows(hs, Tail(rs))
    ELSE <<Head(rs)>> \o keptRows(hs, Tail(rs))

convertToTrainingData(hs, rs) ==
    LET lowerHs == toLowerCaseEach(hs)
        featureIndices == featureIndicesFrom(lowerHs, 1)
        labelIndex == findIndex(lowerHs, toLowerCase(labelColumn))
        hasLabels == labelIndex # -1
        kept == keptRows(hs, rs)
        features == [i \in 1..Len(kept) |-> encodeRow(featureIndices, kept[i])]
        labels == IF hasLabels
                  THEN [i \in 1..Len(kept) |-> extractLabel(labelIndex, kept[i])]
                  ELSE <<>>
    IN  [state |-> "done", features |-> features, labels |-> labels,
         hasLabels |-> hasLabels, rowCount |-> Len(features)]

(***************************************************************************)
(* Encoder inputs: cell texts, header rows and data rows.                  *)
(***************************************************************************)
tEmpty == <<>>
tM == <<"M">>
tm == <<"m">>
tF == <<"F">>
tUrbana == <<"U","r","b","a","n","a">>
tRural == <<"r","u","r","a","l">>
t0 == <<"0">>
t1 == <<"1">>
t2 == <<"2">>
t1p5 == <<"1",".","5">>
tSp7 == <<" ","7">>
t30 == <<"3","0">>
t40 == <<"4","0">>
tx == <<"x">>
t2x == <<"2","x">>
tInfinity == <<"I","n","f","i","n","i","t","y">>
tDengue == <<"d","e","n","g","u","e">>
tMalariaCap == <<"M","a","l","a","r","i","a">>
tLeptoUp == <<"L","E","P","T","O","S","P","I","R","O","S","I","S">>
tZika == <<"z","i","k","a">>
tConstructor == <<"c","o","n","s","t","r","u","c","t","o","r">>
tExtra == <<"e","x","t","r","a">>
hAge == <<"a","g","e">>
hGenderCap == <<"G","e","n","d","e","r">>
hGenderUp == <<"G","E","N","D","E","R">>
hFever == <<"f","e","v","e","r">>
hResidence == <<"r","e","s","i","d","e","n","c","e">>
hDiagnosis == <<"d","i","a","g","n","o","s","i","s">>
hDiagnosisCap == <<"D","i","a","g","n","o","s","i","s">>
hFoo == <<"f","o","o">>

HeaderChoices == {
    <<hAge, hGenderCap, hFever>>,
    <<hGenderUp, hResidence, hDiagnosis>>,
    <<hFever, hDiagnosisCap>>,
    <<hFoo>>,
    <<hDiagnosis, hAge, hDiagnosisCap>>,
    <<>> }

SampleRows == {
    <<>>, <<tEmpty>>, <<tEmpty, tEmpty>>, <<tEmpty, tEmpty, tEmpty>>,
    <<t2>>,
    <<t1, tDengue>>, <<t2, tMalariaCap>>, <<t0, tConstructor>>, <<t1p5, tLeptoUp>>,
    <<t30, tM, t1>>, <<t40, tF, t0>>, <<tx, tm, t2>>, <<tM, tUrbana, tDengue>>,
    <<t40, tEmpty, tEmpty>>, <<tF, tRural, tZika>>,
    <<tSp7, tm, t1p5>>,
    <<t2x, tm, tx>>, <<tInfinity, tF, tEmpty>>,
    <<t1, tm, t1, tExtra>> }

RECURSIVE SeqsUpTo(_, _)
SeqsUpTo(S, n) ==
    IF n = 0 THEN {<<>>}
    ELSE LET shorter == SeqsUpTo(S, n - 1)
         IN  shorter \cup {Append(q, x) : q \in {p \in shorter : Len(p) = n - 1}, x \in S}

(***************************************************************************)
(* The encoder as a state machine: an input is chosen, then encoded.       *)
(***************************************************************************)
EncIdle == headers = <<>> /\ rows = <<>> /\ enc = NotRun
GenIdle ==
    /\ numSamples = 0 /\ genPc = "idle" /\ diseases = <<>> /\ genI = 0
    /\ genSeed = 0 /\ genFeatures = <<>> /\ genLabels = <<>>

PredIdle == lib = "none" /\ probabilitiesArray = <<>> /\ predOut = NotRun

ZeroMatrix == << <<0, 0, 0>>, <<0, 0, 0>>, <<0, 0, 0>> >>
EvalIdle ==
    /\ predictions = <<>> /\ actuals = <<>> /\ evalPc = "idle"
    /\ matrix = ZeroMatrix /\ metrics = NotRun

Null == [t |-> "null"]
IsNull(x) == x.t = "null"
BatchIdle ==
    /\ page = "none" /\ selectedModel = "neural" /\ batchPc = "idle"
    /\ batchResult = Null /\ batchError = Null

Dialogs == {"nav", "page"}
SessionIdle ==
    /\ trainedModel = Null /\ normalizationParams = Null
    /\ trainingLoading = [d \in Dialogs |-> FALSE]
    /\ trainingError = [d \in Dialogs |-> Null]
    /\ trainingResult = [d \in Dialogs |-> Null]
    /\ runs = <<>> /\ lastCompleted = 0
    /\ predictLoading = FALSE /\ predictResult = Null /\ predictError = Null
    /\ predictPending = <<>>
    /\ batchFile = Null /\ batchLoading = FALSE /\ batchRuns = {}
    /\ requests = 0 /\ calls = {}

CsvIdle == content = <<>> /\ csv = NotRun

NormIdle ==
    /\ trainingFeatures = <<>> /\ normalization = NotRun /\ featuresArray = <<>>
    /\ predictInput = NotRun /\ batchInput = NotRun

InitEnc ==
    /\ headers \in HeaderChoices
    /\ rows \in SeqsUpTo(SampleRows, MaxRows)
    /\ enc = NotRun
    /\ GenIdle
    /\ PredIdle
    /\ EvalIdle
    /\ BatchIdle
    /\ SessionIdle
    /\ CsvIdle
    /\ NormIdle

ConvertToTrainingData ==
    /\ enc = NotRun
    /\ enc' = convertToTrainingData(headers, rows)
    /\ UNCHANGED <<headers, rows, genVars, predVars, evalVars, batchVars, sessionVars, csvVars, normVars>>

NextEnc == ConvertToTrainingData

SpecEnc == InitEnc /\ [][NextEnc]_vars

(***************************************************************************)
(* The synthetic cohort generator.  Math.random() returns one of the       *)
(* values of RandomDraws.  The draws that decide the labels (the shuffle   *)
(* and the class drawn when diseases[i] is falsy) are each chosen freely;  *)
(* the draws that only fill feature values are read, in source order, from *)
(* a stream that cycles through RandomDraws starting at genSeed.           *)
(***************************************************************************)
D(m, e) == Number(m, e)

RandomDraws == <<D(0, 0), D(25, 2), D(5, 1), D(75, 2), D(95, 2)>>

\* the k-th Math.random() of record i that fills a feature value
draw(seed, i, k) == RandomDraws[((seed + i + k) % Len(RandomDraws)) + 1]

\* Math.random() > p ? 1 : 0
flag(r, p) == IF Greater(r, p) THEN One ELSE Zero

\* lo + Math.random() * width
ranged(lo, r, width) == Plus(lo, Times(r, width))

\* lines 277-284: samplesPerClass copies of each class, in class order
balancedDiseases(n) ==
    LET samplesPerClass == n \div 3
    IN  [x \in 1..(3 * samplesPerClass) |-> (x - 1) \div samplesPerClass]

\* lines 294-454: the feature vector of record i with class disease
sampleFeatures(disease, seed, i) ==
    LET r(k) == draw(seed, i, k)
        age == Plus(D(20, 0), Floor(Times(r(1), D(50, 0))))
        gender == flag(r(2), D(5, 1))
        residence == flag(r(3), D(5, 1))
        homemaker == flag(r(4), D(8, 1))
        student == flag(r(5), D(7, 1))
        professional == flag(r(6), D(6, 1))
        merchant == flag(r(7), D(8, 1))
        agriculture_livestock == flag(r(8), D(85, 2))
        various_jobs == flag(r(9), D(75, 2))
        unemployed == flag(r(10), D(9, 1))
        hospitalization_days == Plus(One, Floor(Times(r(11), D(10, 0))))
        body_temperature == ranged(D(36, 0), r(12), D(5, 0))
        platelets0 == ranged(D(150, 0), r(13), D(250, 0))
        AST0 == ranged(D(10, 0), r(14), D(40, 0))
        ALT0 == ranged(D(10, 0), r(15), D(40, 0))
        total_bilirubin0 == ranged(D(3, 1), r(16), D(15, 1))
        \* the class-specific block: symptoms and overridden laboratory values
        fever == IF disease = 0 THEN flag(r(17), D(5, 2))
                 ELSE IF disease = 1 THEN flag(r(17), D(2, 2))
                 ELSE flag(r(17), D(5, 2))
        headache == IF disease = 0 THEN flag(r(18), D(1, 1))
                    ELSE IF disease = 1 THEN flag(r(19), D(15, 2))
                    ELSE flag(r(18), D(1, 1))
        weakness == IF disease = 0 THEN flag(r(19), D(15, 2))
                    ELSE IF disease = 1 THEN flag(r(20), D(1, 1))
                    ELSE flag(r(23), D(2, 1))
        rash == IF disease = 0 THEN flag(r(20), D(3, 1)) ELSE Zero
        arthralgias == IF disease = 0 THEN flag(r(21), D(2, 1)) ELSE Zero
        myalgias == IF disease = 0 THEN flag(r(22), D(15, 2))
                    ELSE IF disease = 1 THEN flag(r(22), D(3, 1))
                    ELSE flag(r(19), D(1, 1))
        eye_pain == IF disease = 0 THEN flag(r(23), D(25, 2)) ELSE Zero
        hemorrhages == IF disease = 0 THEN flag(r(24), D(5, 1)) ELSE Zero
        petechiae == IF disease = 0 THEN flag(r(25), D(4, 1)) ELSE Zero
        loss_of_appetite == IF disease = 0 THEN flag(r(26), D(3, 1)) ELSE Zero
        chills == IF disease = 0 THEN Zero
                  ELSE IF disease = 1 THEN flag(r(18), D(1, 1))
                  ELSE flag(r(20), D(2, 1))
        vomiting == IF disease = 0 THEN Zero
                    ELSE IF disease = 1 THEN flag(r(21), D(4, 1))
                    ELSE flag(r(21), D(35, 2))
        dizziness == IF disease = 1 THEN flag(r(23), D(35, 2)) ELSE Zero
        abdominal_pain == IF disease = 0 THEN Zero
                          ELSE IF disease = 1 THEN flag(r(24), D(45, 2))
                          ELSE flag(r(24), D(3, 1))
        jaundice == IF disease \notin {0, 1} THEN flag(r(22), D(4, 1)) ELSE Zero
        platelets == IF disease = 0 THEN MathMax(D(50, 0), ranged(D(50, 0), r(27), D(150, 0)))
                     ELSE IF disease = 1 THEN MathMax(D(80, 0), ranged(D(80, 0), r(25), D(120, 0)))
                     ELSE platelets0
        AST == IF disease \notin {0, 1} THEN ranged(D(30, 0), r(25), D(100, 0)) ELSE AST0
        ALT == IF disease \notin {0, 1} THEN ranged(D(30, 0), r(26), D(100, 0)) ELSE ALT0
        total_bilirubin == IF disease = 0 THEN total_bilirubin0
                           ELSE IF disease = 1 THEN ranged(D(5, 1), r(26), D(2, 0))
                           ELSE ranged(One, r(27), D(3, 0))
        \* the number of draws consumed so far
        n == IF disease = 1 THEN 26 ELSE 27
        hemoptysis == Zero
        edema == Zero
        bruises == Zero
        diarrhea == Zero
        respiratory_difficulty == Zero
        itching == Zero
        hematocrit == ranged(D(35, 0), r(n + 1), D(15, 0))
        hemoglobin == ranged(D(11, 0), r(n + 2), D(6, 0))
        red_blood_cells == ranged(D(35, 1), r(n + 3), D(2, 0))
        white_blood_cells == ranged(D(4, 0), r(n + 4), D(8, 0))
        neutrophils == ranged(D(40, 0), r(n + 5), D(30, 0))
        eosinophils == Times(r(n + 6), D(5, 0))
        basophils == Times(r(n + 7), D(2, 0))
        monocytes == ranged(D(2, 0), r(n + 8), D(8, 0))
        lymphocytes == ranged(D(20, 0), r(n + 9), D(25, 0))
        ALP == ranged(D(30, 0), r(n + 10), D(100, 0))
        direct_bilirubin == ranged(D(1, 1), r(n + 11), D(4, 1))
        indirect_bilirubin == Minus(total_bilirubin, direct_bilirubin)
        total_proteins == ranged(D(6, 0), r(n + 12), D(2, 0))
        albumin == ranged(D(35, 1), r(n + 13), D(15, 1))
        creatinine == ranged(D(6, 1), r(n + 14), D(8, 1))
        urea == ranged(D(10, 0), r(n + 15), D(30, 0))
    IN  << age, gender, residence, homemaker, student, professional, merchant,
           agriculture_livestock, various_jobs, unemployed, hospitalization_days,
           body_temperature, fever, headache, dizziness, loss_of_appetite, weakness,
           myalgias, arthralgias, eye_pain, hemorrhages, vomiting, abdominal_pain,
           chills, hemoptysis, edema, jaundice, bruises, petechiae, rash, diarrhea,
           respiratory_difficulty, itching, hematocrit, hemoglobin, red_blood_cells,
           white_blood_cells, neutrophils, eosinophils, basophils, monocytes,
           lymphocytes, platelets, AST, ALT, ALP, total_bilirubin, direct_bilirubin,
           indirect_bilirubin, total_proteins, albumin, creatinine, urea >>

InitGen ==
    /\ numSamples \in 0..MaxSamples
    /\ genSeed \in 0..(Len(RandomDraws) - 1)
    /\ genPc = "call"
    /\ diseases = <<>>
    /\ genI = 0
    /\ genFeatures = <<>>
    /\ genLabels = <<>>
    /\ EncIdle
    /\ PredIdle
    /\ EvalIdle
    /\ BatchIdle
    /\ SessionIdle
    /\ CsvIdle
    /\ NormIdle

\* lines 274-284: the balanced array is built; the shuffle loop starts at its end
GenBalance ==
    /\ genPc = "call"
    /\ diseases' = balancedDiseases(numSamples)
    /\ genI' = Len(diseases') - 1
    /\ genPc' = "shuffle"
    /\ UNCHANGED <<numSamples, genSeed, genFeatures, genLabels, encVars, predVars, evalVars, batchVars, sessionVars, csvVars, normVars>>

\* lines 286-289: one iteration of the Fisher-Yates loop (i and j are 0-based)
GenShuffleStep ==
    /\ genPc = "shuffle"
    /\ genI > 0
    /\ \E r \in {RandomDraws[x] : x \in 1..Len(RandomDraws)} :
          LET j == Floor(Times(r, D(genI + 1, 0))).m
          IN  diseases' = [diseases EXCEPT ![genI + 1] = diseases[j + 1],
                                           ![j + 1] = diseases[genI + 1]]
    /\ genI' = genI - 1
    /\ UNCHANGED <<numSamples, genPc, genSeed, genFeatures, genLabels, encVars, predVars, evalVars, batchVars, sessionVars, csvVars, normVars>>

\* the shuffle loop ends; the record loop starts at i = 0
GenShuffleEnd ==
    /\ genPc = "shuffle"
    /\ genI <= 0
    /\ genI' = 0
    /\ genPc' = "records"
    /\ UNCHANGED <<numSamples, diseases, genSeed, genFeatures, genLabels, encVars, predVars, evalVars, batchVars, sessionVars, csvVars, normVars>>

\* line 292: diseases[i] || Math.floor(Math.random() * 3); diseases[i] is falsy
\* when it is 0 and when i is past the end of the array (undefined)
diseaseChoices(ds, i) ==
    IF i < Len(ds) /\ ds[i + 1] # 0
    THEN {ds[i + 1]}
    ELSE {Floor(Times(RandomDraws[x], D(3, 0))).m : x \in 1..Len(RandomDraws)}

\* lines 291-456: one iteration of the record loop
GenRecord ==
    /\ genPc = "records"
    /\ genI < numSamples
    /\ \E disease \in diseaseChoices(diseases, genI) :
          /\ genFeatures' = Append(genFeatures, sampleFeatures(disease, genSeed, genI))
          /\ genLabels' = Append(genLabels, disease)
    /\ genI' = genI + 1
    /\ UNCHANGED <<numSamples, genPc, diseases, genSeed, encVars, predVars, evalVars, batchVars, sessionVars, csvVars, normVars>>

\* line 458: return { features, labels }
GenReturn ==
    /\ genPc = "records"
    /\ genI >= numSamples
    /\ genPc' = "done"
    /\ UNCHANGED <<numSamples, diseases, genI, genSeed, genFeatures, genLabels, encVars, predVars, evalVars, batchVars, sessionVars, csvVars, normVars>>

NextGen == GenBalance \/ GenShuffleStep \/ GenShuffleEnd \/ GenRecord \/ GenReturn

SpecGen == InitGen /\ [][NextGen]_vars

(***************************************************************************)
(* The calibration and decision layer.  A probability is a fixed-point     *)
(* number: the integer p stands for p / SCALE, and every product, quotient *)
(* and root is rounded down to that precision.                             *)
(***************************************************************************)
SCALE == 100 * 100

FMul(a, b) == (a * b) \div SCALE
FDiv(a, b) == (a * SCALE) \div b

RECURSIVE ISqrtBetween(_, _, _)
ISqrtBetween(n, lo, hi) ==
    IF lo >= hi THEN lo
    ELSE LET mid == (lo + hi + 1) \div 2
         IN  IF mid * mid <= n THEN ISqrtBetween(n, mid, hi)
             ELSE ISqrtBetween(n, lo, mid - 1)

\* the square root of a fixed-point number in [0, 1]
FSqrt(x) == ISqrtBetween(x * SCALE, 0, SCALE)

RECURSIVE FRoot(_, _)
FRoot(x, den) == IF den <= 1 THEN x ELSE FRoot(FSqrt(x), den \div 2)

RECURSIVE FPowInt(_, _)
FPowInt(x, n) == IF n = 0 THEN SCALE ELSE FMul(x, FPowInt(x, n - 1))

RECURSIVE GCD(_, _)
GCD(a, b) == IF b = 0 THEN a ELSE GCD(b, a % b)

\* Math.pow(x, num / den) for x in [0, 1] and den a power of two
MathPow(x, num, den) == FPowInt(FRoot(x, den), num)

Lib000 == "part_000"
Lib001 == "part_001"
Libs == {Lib000, Lib001}

DISEASE_LABELS == << <<"D","e","n","g","u","e">>,
                     <<"M","a","l","a","r","i","a">>,
                     <<"L","e","p","t","o","s","p","i","r","o","s","i","s">> >>

\* const temperature = 0.4 (part_000) or 0.8 (part_001), as a fraction
\* a temperature of 0.2 in both libraries
temperature_cold(l) == [num |-> 2, den |-> 10]

temperature(l) == IF l = Lib000 THEN [num |-> 4, den |-> 10] ELSE [num |-> 8, den |-> 10]

\* p => Math.pow(Math.max(p, 0.001), 1 / temperature) in part_000,
\* p => Math.pow(p, 1 / temperature) in part_001
scaleProb(l, p) ==
    LET t == temperature(l)
        g == GCD(t.den, t.num)
        floor == SCALE \div 1000
        base == IF l = Lib000 /\ p < floor THEN floor ELSE p
    IN  MathPow(base, t.den \div g, t.num \div g)

\* temperature scaling of one row, renormalised to sum 1
normalizedProbs(l, probabilities) ==
    LET scaledProbs == << scaleProb(l, probabilities[1]), scaleProb(l, probabilities[2]),
                          scaleProb(l, probabilities[3]) >>
        sum == scaledProbs[1] + scaledProbs[2] + scaledProbs[3]
    IN  << FDiv(scaledProbs[1], sum), FDiv(scaledProbs[2], sum), FDiv(scaledProbs[3], sum) >>

\* the loop "find the class with highest probability", from index i (0-based) on
RECURSIVE findMax(_, _, _, _)
findMax(ps, i, maxProb, predictedClass) ==
    IF i >= Len(ps) THEN [maxProb |-> maxProb, predictedClass |-> predictedClass]
    ELSE IF ps[i + 1] > maxProb THEN findMax(ps, i + 1, ps[i + 1], i)
    ELSE findMax(ps, i + 1, maxProb, predictedClass)

\* predict, after model.predict returned probabilities; rotation is the value
\* of Math.floor(Math.random() * 3), drawn by part_000 only
predict(l, probabilities, rotation) ==
    LET np == normalizedProbs(l, probabilities)
        ps == IF l = Lib000
              THEN << np[((0 + rotation) % 3) + 1], np[((1 + rotation) % 3) + 1],
                      np[((2 + rotation) % 3) + 1] >>
              ELSE np
        best == findMax(ps, 0, 0, 0)
    IN  [disease |-> DISEASE_LABELS[best.predictedClass + 1],
         confidence |-> best.maxProb,
         probabilities |-> ps]

\* part_000, lines 284-291: the per-class targets of the forced distribution
classTargets(totalSamples) ==
    LET targetPerClass == totalSamples \div 3
        remainder == totalSamples % 3
    IN  [i \in 0..2 |-> IF i < remainder THEN targetPerClass + 1 ELSE targetPerClass]

\* part_000, lines 304-321: boost the classes below target, penalise the others
boostedProbs(np, targets, classCounts) ==
    LET classNeeds == [i \in 0..2 |-> targets[i] - classCounts[i]]
        maxNeed == Max({classNeeds[i] : i \in 0..2})
        boost(i) == IF classNeeds[i] = maxNeed /\ classNeeds[i] > 0 THEN np[i + 1] * 3
                    ELSE IF classNeeds[i] > 0 THEN np[i + 1] * 2
                    ELSE np[i + 1] \div 10
        boosted == << boost(0), boost(1), boost(2) >>
        newSum == boosted[1] + boosted[2] + boosted[3]
    IN  << FDiv(boosted[1], newSum), FDiv(boosted[2], newSum), FDiv(boosted[3], newSum) >>

\* part_000, lines 295-346: the loop over the rows, from row idx (1-based) on
RECURSIVE predictBatchLoop(_, _, _, _)
predictBatchLoop(pa, idx, targets, classCounts) ==
    IF idx > Len(pa) THEN <<>>
    ELSE LET ps == boostedProbs(normalizedProbs(Lib000, pa[idx]), targets, classCounts)
             best == findMax(ps, 0, 0, 0)
             floor == (6 * SCALE) \div 10
             result == [disease |-> DISEASE_LABELS[best.predictedClass + 1],
                        confidence |-> IF best.maxProb < floor THEN floor ELSE best.maxProb,
                        probabilities |-> ps]
         IN  <<result>> \o predictBatchLoop(pa, idx + 1, targets,
                              [classCounts EXCEPT ![best.predictedClass] = @ + 1])

\* part_001, lines 275-300: each row on its own
RECURSIVE predictBatchMap(_, _)
predictBatchMap(pa, idx) ==
    IF idx > Len(pa) THEN <<>>
    ELSE LET ps == normalizedProbs(Lib001, pa[idx])
             best == findMax(ps, 0, 0, 0)
         IN  << [disease |-> DISEASE_LABELS[best.predictedClass + 1],
                 confidence |-> best.maxProb,
                 probabilities |-> ps] >> \o predictBatchMap(pa, idx + 1)

\* predictBatch, after model.predict returned probabilitiesArray
predictBatch(l, pa) ==
    IF l = Lib000
    THEN predictBatchLoop(pa, 1, classTargets(Len(pa)), [i \in 0..2 |-> 0])
    ELSE predictBatchMap(pa, 1)

\* rows the classifier may return: three probabilities that sum to 1
RawRows == { <<4000, 3500, 2500>>, <<0, 0, 10000>>, <<5000, 5000, 0>>,
             <<1000, 2000, 7000>>, <<2500, 5000, 2500>> }

InitPred ==
    /\ lib \in Libs
    /\ probabilitiesArray \in SeqsUpTo(RawRows, MaxBatch) \ {<<>>}
    /\ predOut = NotRun
    /\ EncIdle
    /\ GenIdle
    /\ EvalIdle
    /\ BatchIdle
    /\ SessionIdle
    /\ CsvIdle
    /\ NormIdle

\* a single-record request
Predict ==
    /\ predOut = NotRun
    /\ Len(probabilitiesArray) = 1
    /\ \E rotation \in 0..2 :
          predOut' = [state |-> "done", op |-> "predict",
                      results |-> << predict(lib, probabilitiesArray[1], rotation) >>]
    /\ UNCHANGED <<lib, probabilitiesArray, encVars, genVars, evalVars, batchVars, sessionVars, csvVars, normVars>>

PredictBatch ==
    /\ predOut = NotRun
    /\ predOut' = [state |-> "done", op |-> "predictBatch",
                   results |-> predictBatch(lib, probabilitiesArray)]
    /\ UNCHANGED <<lib, probabilitiesArray, encVars, genVars, evalVars, batchVars, sessionVars, csvVars, normVars>>

NextPred == Predict \/ PredictBatch

SpecPred == InitPred /\ [][NextPred]_vars

(***************************************************************************)
(* The evaluation engine of the ml-models libraries (the same text in both *)
(* files).  A metric is a fixed-point number or one of two values that     *)
(* stand for the results of a division by zero.                            *)
(***************************************************************************)
NotANumber == 0 - 1
PositiveInfinity == 0 - 2

\* a / b for b > 0, and what JavaScript returns for b = 0
Quotient(a, b) ==
    IF b = 0 THEN (IF a = 0 THEN NotANumber ELSE PositiveInfinity)
    ELSE (a * SCALE) \div b

\* x || 0 without the replacement of NaN
OrZero_keep(x) == x

\* x || 0
OrZero(x) == IF x = NotANumber THEN 0 ELSE x

\* matrix[actuals[i]][predictions[i]]++ for every i; a row index outside the
\* matrix reads undefined, and the increment of its cell throws a TypeError
Threw == << <<"TypeError">> >>
calculateConfusionMatrix(preds, acts) ==
    IF \E i \in 1..Len(preds) : acts[i] \notin 0..2
    THEN Threw
    ELSE [a \in 1..3 |-> [p \in 1..3 |->
            Cardinality({i \in 1..Len(preds) : acts[i] = a - 1 /\ preds[i] = p - 1})]]

calculateMetrics(confusionMatrix) ==
    LET numClasses == Len(confusionMatrix)
        cell(i, j) == confusionMatrix[i + 1][j + 1]
        RECURSIVE sumOver(_, _)
        sumOver(f(_), j) == IF j >= numClasses THEN 0 ELSE f(j) + sumOver(f, j + 1)
        truePositive(i) == cell(i, i)
        falsePositive(i) == LET fp(j) == IF j # i THEN cell(j, i) ELSE 0 IN sumOver(fp, 0)
        falseNegative(i) == LET fn(j) == IF j # i THEN cell(i, j) ELSE 0 IN sumOver(fn, 0)
        rowTotal(i) == LET c(j) == cell(i, j) IN sumOver(c, 0)
        totalSamples == sumOver(rowTotal, 0)
        totalCorrect == sumOver(truePositive, 0)
        precision(i) == OrZero(Quotient(truePositive(i), truePositive(i) + falsePositive(i)))
        recall(i) == OrZero(Quotient(truePositive(i), truePositive(i) + falseNegative(i)))
        totalPrecision == sumOver(precision, 0)
        totalRecall == sumOver(recall, 0)
        accuracy == Quotient(totalCorrect, totalSamples)
        avgPrecision == totalPrecision \div numClasses
        avgRecall == totalRecall \div numClasses
        f1Score == OrZero(IF avgPrecision + avgRecall = 0 THEN NotANumber
                          ELSE (2 * avgPrecision * avgRecall) \div (avgPrecision + avgRecall))
    IN  [accuracy |-> accuracy, precision |-> avgPrecision,
         recall |-> avgRecall, f1Score |-> f1Score]

InitEval ==
    /\ \E n \in 0..MaxPairs :
          /\ predictions \in [1..n -> 0..2]
          /\ actuals \in [1..n -> (0 - 1)..2]
    /\ evalPc = "call"
    /\ matrix = ZeroMatrix
    /\ metrics = NotRun
    /\ EncIdle
    /\ GenIdle
    /\ PredIdle
    /\ BatchIdle
    /\ SessionIdle
    /\ CsvIdle
    /\ NormIdle

CalculateConfusionMatrix ==
    /\ evalPc = "call"
    /\ LET m == calculateConfusionMatrix(predictions, actuals)
       IN  IF m = Threw
           THEN evalPc' = "threw" /\ UNCHANGED matrix
           ELSE evalPc' = "matrix" /\ matrix' = m
    /\ UNCHANGED <<predictions, actuals, metrics, encVars, genVars, predVars, batchVars, sessionVars, csvVars, normVars>>

CalculateMetrics ==
    /\ evalPc = "matrix"
    /\ metrics' = calculateMetrics(matrix)
    /\ evalPc' = "done"
    /\ UNCHANGED <<predictions, actuals, matrix, encVars, genVars, predVars, batchVars, sessionVars, csvVars, normVars>>

NextEval == CalculateConfusionMatrix \/ CalculateMetrics

SpecEval == InitEval /\ [][NextEval]_vars

(***************************************************************************)
(* calculateMetrics called on a confusion matrix that is given.            *)
(***************************************************************************)
MaxCell == 1
Scenario4Matrix == << <<45, 3, 2>>, <<4, 42, 4>>, <<3, 5, 42>> >>
SampleMatrices == [1..3 -> [1..3 -> 0..MaxCell]] \cup {Scenario4Matrix}

InitMetrics ==
    /\ matrix \in SampleMatrices
    /\ predictions = <<>>
    /\ actuals = <<>>
    /\ evalPc = "matrix"
    /\ metrics = NotRun
    /\ EncIdle
    /\ GenIdle
    /\ PredIdle
    /\ BatchIdle
    /\ SessionIdle
    /\ CsvIdle
    /\ NormIdle

NextMetrics == CalculateMetrics

SpecMetrics == InitMetrics /\ [][NextMetrics]_vars

(***************************************************************************)
(* handleBatchProcess of the two pages, from the parsed file on: the home  *)
(* page (metrics-display.tsx) and the dashboard page (dashboard/page.tsx). *)
(* The file is selected and, on the home page, a model is trained.         *)
(***************************************************************************)
StringValue(s) == [t |-> "string", v |-> s]
ObjectValue(o) == [t |-> "object", v |-> o]

RECURSIVE trimStart(_)
trimStart(s) ==
    IF s # <<>> /\ Head(s) \in WhiteSpaceChars THEN trimStart(Tail(s)) ELSE s

RECURSIVE trimEnd(_)
trimEnd(s) ==
    IF s # <<>> /\ s[Len(s)] \in WhiteSpaceChars
    THEN trimEnd(SubSeq(s, 1, Len(s) - 1)) ELSE s

trim(s) == trimEnd(trimStart(s))

\* home page: the labels of the rows the encoder keeps
RECURSIVE actualLabelsOf(_, _, _)
actualLabelsOf(hs, rs, diagnosisIdx) ==
    IF rs = <<>> THEN <<>>
    ELSE LET row == Head(rs)
             rest == actualLabelsOf(hs, Tail(rs), diagnosisIdx)
         IN  IF skipRow(hs, row) THEN rest
             ELSE IF diagnosisIdx # -1 /\ diagnosisIdx < Len(row)
             THEN <<trim(row[diagnosisIdx + 1])>> \o rest
             ELSE rest

\* home page: the diseaseMap object literal, read with diseaseMap[key]
homeDiseaseMap(key) ==
    IF key \in { <<"D","e","n","g","u","e">>, <<"d","e","n","g","u","e">>,
                 <<"D","E","N","G","U","E">>, <<"1">> } THEN NumberValue(0)
    ELSE IF key \in { <<"M","a","l","a","r","i","a">>, <<"m","a","l","a","r","i","a">>,
                      <<"M","A","L","A","R","I","A">>, <<"2">> } THEN NumberValue(1)
    ELSE IF key \in { <<"L","e","p","t","o","s","p","i","r","o","s","i","s">>,
                      <<"l","e","p","t","o","s","p","i","r","o","s","i","s">>,
                      <<"L","E","P","T","O","S","P","I","R","O","S","I","S">>,
                      <<"3">> } THEN NumberValue(2)
    ELSE IF key = <<"c","o","n","s","t","r","u","c","t","o","r">> THEN [t |-> "function", v |-> 0]
    ELSE IF key = <<"_","_","p","r","o","t","o","_","_">> THEN [t |-> "object", v |-> 0]
    ELSE Undefined

\* a distribution that puts every record in the first class
balancedClasses_first(totalPredictions) ==
    [i \in 1..totalPredictions |-> DISEASE_LABELS[1]]

\* home page: balancedClasses before the shuffle
balancedClasses(totalPredictions) ==
    LET predictionsPerClass == totalPredictions \div 3
        remainder == totalPredictions % 3
        RECURSIVE fill(_, _)
        fill(i, j) ==
            IF i >= 3 THEN <<>>
            ELSE IF j >= predictionsPerClass + (IF i < remainder THEN 1 ELSE 0)
            THEN fill(i + 1, 0)
            ELSE <<DISEASE_LABELS[i + 1]>> \o fill(i, j + 1)
    IN  fill(0, 0)

\* home page: the orders the shuffle of balancedClasses can end in
Shuffles(totalPredictions) ==
    LET b == balancedClasses(totalPredictions)
        Labels == {DISEASE_LABELS[c] : c \in 1..3}
        count(q, l) == Cardinality({i \in 1..Len(q) : q[i] = l})
    IN  {q \in [1..totalPredictions -> Labels] : \A l \in Labels : count(q, l) = count(b, l)}

homePredictions(batchPredictions, balanced, actualLabels) ==
    LET floor == (65 * SCALE) \div 100
    IN  [idx \in 1..Len(batchPredictions) |->
           [id |-> idx,
            predicted |-> IF idx <= Len(balanced) THEN balanced[idx]
                          ELSE batchPredictions[idx].disease,
            actual |-> IF idx <= Len(actualLabels) /\ actualLabels[idx] # <<>>
                       THEN StringValue(actualLabels[idx]) ELSE Undefined,
            confidence |-> IF batchPredictions[idx].confidence < floor THEN floor
                           ELSE batchPredictions[idx].confidence]]

hasValidLabels(actualLabels) ==
    /\ Len(actualLabels) > 0
    /\ \A i \in 1..Len(actualLabels) : actualLabels[i] # <<>> /\ trim(actualLabels[i]) # <<>>

convertedLabels(actualLabels) ==
    [i \in 1..Len(actualLabels) |->
        LET mapped == homeDiseaseMap(trim(actualLabels[i]))
        IN  IF mapped # Undefined THEN mapped ELSE NumberValue(0 - 1)]

\* home page: the loop that fills the matrix; a row index that is no number
\* reads undefined from the matrix, and the increment throws a TypeError
homeConfusionMatrix(preds, converted) ==
    IF \E i \in 1..Len(preds) : i <= Len(converted) /\ converted[i].t # "number"
    THEN Threw
    ELSE [a \in 1..3 |-> [p \in 1..3 |->
            Cardinality({i \in 1..Len(preds) :
                /\ i <= Len(converted)
                /\ converted[i] = NumberValue(a - 1)
                /\ homeDiseaseMap(preds[i].predicted) = NumberValue(p - 1)})]]

\* home page: the metrics of the matrix, then moved towards the targets of
\* the selected model
homeMetrics(confusionMatrix, model, randomFactor) ==
    LET cell(i, j) == confusionMatrix[i + 1][j + 1]
        totalSamples == cell(0,0) + cell(0,1) + cell(0,2) + cell(1,0) + cell(1,1)
                        + cell(1,2) + cell(2,0) + cell(2,1) + cell(2,2)
        totalCorrect == cell(0,0) + cell(1,1) + cell(2,2)
        accuracy == IF totalSamples > 0 THEN (totalCorrect * SCALE) \div totalSamples ELSE 0
        tp(i) == cell(i, i)
        fp(i) == cell((i + 1) % 3, i) + cell((i + 2) % 3, i)
        fn(i) == cell(i, (i + 1) % 3) + cell(i, (i + 2) % 3)
        precision(i) == IF tp(i) + fp(i) > 0 THEN (tp(i) * SCALE) \div (tp(i) + fp(i)) ELSE 0
        recall(i) == IF tp(i) + fn(i) > 0 THEN (tp(i) * SCALE) \div (tp(i) + fn(i)) ELSE 0
        f1(i) == IF precision(i) + recall(i) > 0
                 THEN (2 * precision(i) * recall(i)) \div (precision(i) + recall(i)) ELSE 0
        avgPrecision == (precision(0) + precision(1) + precision(2)) \div 3
        avgRecall == (recall(0) + recall(1) + recall(2)) \div 3
        avgF1 == (f1(0) + f1(1) + f1(2)) \div 3
        isLogistic == model = "logistic"
        pct(n) == (n * SCALE) \div 100
        targetAccuracy == IF isLogistic THEN pct(70) ELSE pct(85)
        targetPrecision == IF isLogistic THEN pct(65) ELSE pct(80)
        targetRecall == IF isLogistic THEN pct(68) ELSE pct(82)
        targetF1 == IF isLogistic THEN pct(66) ELSE pct(81)
        boost(target, value) == IF target - value > 0 THEN target - value ELSE 0
        capped(x) == IF x > pct(95) THEN pct(95) ELSE x
    IN  [accuracy |-> capped(accuracy + FMul(boost(targetAccuracy, accuracy), randomFactor)),
         precision |-> capped(avgPrecision
                         + FMul(FMul(boost(targetPrecision, avgPrecision), randomFactor), pct(90))),
         recall |-> capped(avgRecall
                         + FMul(FMul(boost(targetRecall, avgRecall), randomFactor), pct(90))),
         f1Score |-> capped(avgF1
                         + FMul(FMul(boost(targetF1, avgF1), randomFactor), pct(90)))]

\* home page: the batchResult object
homeBatchResult(features, preds, valid, cm, model, randomFactor) ==
    [totalRecords |-> Len(features),
     predictions |-> preds,
     metrics |-> IF valid THEN ObjectValue(homeMetrics(cm, model, randomFactor))
                 ELSE Undefined,
     confusionMatrix |-> IF valid THEN ObjectValue(cm) ELSE Undefined]

\* dashboard page: the matrix literal of the selected model
dashboardConfusionMatrix(model) ==
    IF model = "logistic"
    THEN << <<44, 4, 2>>, <<5, 41, 4>>, <<4, 5, 41>> >>
    ELSE << <<45, 3, 2>>, <<4, 42, 4>>, <<3, 5, 42>> >>

\* values Math.random() returns, and the k-th of a run that starts at seed
UnitDraws == << 0, SCALE \div 2, SCALE - 1 >>
unitDraw(seed, k) == UnitDraws[((seed + k) % Len(UnitDraws)) + 1]

\* dashboard page: diseases[labels[idx]]
diseasesAt(label) ==
    IF label.t = "number" /\ label.v \in 0..2
    THEN StringValue(DISEASE_LABELS[label.v + 1]) ELSE Undefined

\* dashboard page: what the try block computes after the file is encoded
dashboardBatch(conv, classes, model, seed) ==
    LET pct(n) == (n * SCALE) \div 100
        n == conv.rowCount
        preds == [idx \in 1..n |->
                    [id |-> idx,
                     predicted |-> DISEASE_LABELS[classes[idx] + 1],
                     actual |-> IF conv.hasLabels THEN diseasesAt(conv.labels[idx])
                                ELSE Undefined,
                     confidence |-> pct(70) + FMul(unitDraw(seed, idx), pct(25))]]
        accuracy == pct(85) + FMul(unitDraw(seed, n + 1), pct(10))
        precision == pct(82) + FMul(unitDraw(seed, n + 2), pct(12))
        recall == pct(80) + FMul(unitDraw(seed, n + 3), pct(15))
        f1Score == (2 * precision * recall) \div (precision + recall)
    IN  [totalRecords |-> n,
         predictions |-> preds,
         metrics |-> ObjectValue([accuracy |-> accuracy, precision |-> precision,
                                  recall |-> recall, f1Score |-> f1Score]),
         confusionMatrix |-> ObjectValue(dashboardConfusionMatrix(model))]

tSpMalaria == <<" ","M","a","l","a","r","i","a">>
tDengueMixed == <<"d","E","n","g","u","e">>
BatchHeaders == { <<hAge, hDiagnosisCap>>, <<hAge>> }
BatchRows == { <<t30, tDengue>>, <<t40, tSpMalaria>>, <<t2, tZika>>,
               <<t0, tConstructor>>, <<t40, tEmpty>>, <<t30, tDengueMixed>> }
BatchRawRows == { <<4000, 3500, 2500>>, <<1000, 2000, 7000>> }
RandomFactors == { (95 * SCALE) \div 100, (105 * SCALE) \div 100 - 1 }
\* the zero-rows case without a message
NoValidData_none == Null

NoValidData == StringValue("No se encontraron datos validos en el archivo")

InitBatch ==
    /\ page \in {"home", "dashboard"}
    /\ selectedModel \in {"logistic", "neural"}
    /\ lib \in (IF page = "home" THEN Libs ELSE {"none"})
    /\ headers \in BatchHeaders
    /\ rows \in SeqsUpTo(BatchRows, MaxRows)
    /\ batchPc = "ready"
    /\ batchResult = Null
    /\ batchError = Null
    /\ enc = NotRun
    /\ probabilitiesArray = <<>>
    /\ predOut = NotRun
    /\ GenIdle
    /\ EvalIdle
    /\ SessionIdle
    /\ CsvIdle
    /\ NormIdle

HomeHandleBatchProcess ==
    /\ page = "home"
    /\ batchPc = "ready"
    /\ batchPc' = "finished"
    /\ \E conv \in {convertToTrainingData(headers, rows)} :
        IF conv.rowCount = 0
        THEN batchError' = NoValidData /\ UNCHANGED <<batchResult, probabilitiesArray>>
        ELSE \E pa \in [1..conv.rowCount -> BatchRawRows],
                balanced \in Shuffles(conv.rowCount),
                randomFactor \in RandomFactors :
             \E actualLabels \in {actualLabelsOf(headers, rows,
                     findIndex(toLowerCaseEach(headers), toLowerCase(labelColumn)))} :
             \E batchPredictions \in {predictBatch(lib, pa)} :
             \E preds \in {homePredictions(batchPredictions, balanced, actualLabels)} :
             \E valid \in {hasValidLabels(actualLabels)} :
             \E cm \in {IF valid
                        THEN homeConfusionMatrix(preds, convertedLabels(actualLabels))
                        ELSE ZeroMatrix} :
                /\ probabilitiesArray' = pa
                /\ IF cm = Threw
                   THEN batchError' = StringValue("TypeError") /\ UNCHANGED batchResult
                   ELSE /\ batchResult' = ObjectValue(homeBatchResult(conv.features, preds,
                                              valid, cm, selectedModel, randomFactor))
                        /\ UNCHANGED batchError
    /\ UNCHANGED <<page, selectedModel, headers, rows, enc, lib, predOut, genVars, evalVars,
                   sessionVars, csvVars, normVars>>

DashboardHandleBatchProcess ==
    /\ page = "dashboard"
    /\ batchPc = "ready"
    /\ batchPc' = "finished"
    /\ \E conv \in {convertToTrainingData(headers, rows)} :
        IF conv.rowCount = 0
        THEN batchError' = NoValidData /\ UNCHANGED batchResult
        ELSE \E classes \in [1..conv.rowCount -> 0..2], seed \in 0..(Len(UnitDraws) - 1) :
                /\ batchResult' = ObjectValue(dashboardBatch(conv, classes,
                                                             selectedModel, seed))
                /\ UNCHANGED batchError
    /\ UNCHANGED <<page, selectedModel, encVars, predVars, genVars, evalVars,
                   sessionVars, csvVars, normVars>>

NextBatch == HomeHandleBatchProcess \/ DashboardHandleBatchProcess

SpecBatch == InitBatch /\ [][NextBatch]_vars

(***************************************************************************)
(* The session: the training dialogs (the Navigation dialog of both pages  *)
(* and the dashboard page's own buttons), the prediction form and the      *)
(* batch panel.  A training run is known by its number; the model and the  *)
(* min/max parameters it returns carry that number.  What a batch result   *)
(* contains is the subject of SpecBatch; here it is the run it came from.  *)
(***************************************************************************)
Models == {"logistic", "neural"}
Fitting == {r \in 1..Len(runs) : runs[r].status = "fitting"}
ModelFirstPredict == StringValue("Por favor entrena un modelo primero desde el navegador")
ModelFirstBatch == StringValue("Por favor entrena un modelo primero desde el boton 'Entrenar'")
FieldsRequired == StringValue("Por favor completa los campos requeridos")
InvalidFile == StringValue("Por favor selecciona un archivo CSV o XLSX valido")

\* disabled={trainingLoading} on the two train buttons of a dialog
trainDisabled_never(d) == FALSE
trainDisabled(d) == trainingLoading[d]

\* const epochs = model === "logistic" ? 50 : 75
totalEpochs(model) == IF model = "logistic" THEN 50 ELSE 75

\* the first lines of handleTrain, up to the await of the fit
startTraining(d, model) ==
    /\ runs' = Append(runs, [model |-> model, dialog |-> d, status |-> "fitting",
                             epochs |-> totalEpochs(model)])
    /\ trainingLoading' = [trainingLoading EXCEPT ![d] = TRUE]
    /\ trainingError' = [trainingError EXCEPT ![d] = Null]
    /\ trainingResult' = [trainingResult EXCEPT ![d] = Null]

InitSession ==
    /\ page \in {"home", "dashboard"}
    /\ selectedModel = "neural"
    /\ batchPc = "idle"
    /\ batchResult = Null
    /\ batchError = Null
    /\ SessionIdle
    /\ EncIdle
    /\ GenIdle
    /\ PredIdle
    /\ EvalIdle
    /\ CsvIdle
    /\ NormIdle

\* Navigation: handleTrain(model), from a click on one of its two buttons
NavHandleTrain ==
    /\ ~trainDisabled("nav")
    /\ Len(runs) + requests < MaxEvents
    /\ \E model \in Models : startTraining("nav", model)
    /\ UNCHANGED <<trainedModel, normalizationParams, lastCompleted, predictLoading,
                   predictResult, predictError, predictPending, batchFile, batchLoading,
                   batchRuns, requests, calls, batchVars,
                   encVars, genVars, predVars, evalVars, csvVars, normVars>>

\* dashboard page: setSelectedModel(button); handleTrain(), which reads the
\* selectedModel of the render the click happened in
DashboardHandleTrain ==
    /\ page = "dashboard"
    /\ ~trainDisabled("page")
    /\ Len(runs) + requests < MaxEvents
    /\ startTraining("page", selectedModel)
    /\ \E button \in Models : selectedModel' = button
    /\ UNCHANGED <<trainedModel, normalizationParams, lastCompleted, predictLoading,
                   predictResult, predictError, predictPending, batchFile, batchLoading,
                   batchRuns, requests, calls, page, batchPc, batchResult, batchError,
                   encVars, genVars, predVars, evalVars, csvVars, normVars>>

\* onModelTrained that keeps the parameters the session already has
onModelTrained_keepsParams(d, r) ==
    IF d = "nav" /\ page = "home"
    THEN /\ trainedModel' = ObjectValue(r)
         /\ normalizationParams' = IF IsNull(normalizationParams) THEN ObjectValue(r)
                                   ELSE normalizationParams
    ELSE UNCHANGED <<trainedModel, normalizationParams>>

\* onModelTrained is passed to Navigation by the home page only
onModelTrained(d, r) ==
    IF d = "nav" /\ page = "home"
    THEN trainedModel' = ObjectValue(r) /\ normalizationParams' = ObjectValue(r)
    ELSE UNCHANGED <<trainedModel, normalizationParams>>

\* the fit of run r resolves: the rest of handleTrain's try block, and finally
FitResolves ==
    \E r \in Fitting :
        LET d == runs[r].dialog
        IN  /\ runs' = [runs EXCEPT ![r].status = "done"]
            /\ lastCompleted' = r
            /\ trainingResult' = [trainingResult EXCEPT
                   ![d] = ObjectValue([modelType |-> runs[r].model, status |-> "success"])]
            /\ onModelTrained(d, r)
            /\ IF d = "nav" THEN selectedModel' = runs[r].model ELSE UNCHANGED selectedModel
            /\ trainingLoading' = [trainingLoading EXCEPT ![d] = FALSE]
            /\ UNCHANGED <<trainingError, predictLoading, predictResult, predictError,
                           predictPending, batchFile, batchLoading, batchRuns, requests,
                           calls, page, batchPc, batchResult, batchError,
                           encVars, genVars, predVars, evalVars, csvVars, normVars>>

\* the fit of run r raises, without the finally block
FitRaises_noFinally ==
    \E r \in Fitting :
        /\ runs' = [runs EXCEPT ![r].status = "raised"]
        /\ trainingError' = [trainingError EXCEPT
               ![runs[r].dialog] = StringValue("Error al entrenar el modelo")]
        /\ UNCHANGED <<trainingLoading, trainingResult, trainedModel, normalizationParams,
                       lastCompleted, predictLoading, predictResult, predictError,
                       predictPending, batchFile, batchLoading, batchRuns, requests, calls,
                       batchVars, encVars, genVars, predVars, evalVars, csvVars, normVars>>

\* the fit of run r raises: the catch and finally blocks of handleTrain
FitRaises ==
    \E r \in Fitting :
        /\ runs' = [runs EXCEPT ![r].status = "raised"]
        /\ trainingError' = [trainingError EXCEPT
               ![runs[r].dialog] = StringValue("Error al entrenar el modelo")]
        /\ trainingLoading' = [trainingLoading EXCEPT ![runs[r].dialog] = FALSE]
        /\ UNCHANGED <<trainingResult, trainedModel, normalizationParams,
                       lastCompleted, predictLoading, predictResult, predictError,
                       predictPending, batchFile, batchLoading, batchRuns, requests, calls,
                       batchVars, encVars, genVars, predVars, evalVars, csvVars, normVars>>

\* a call of predict or predictBatch of the library
Call(op, model, params, atRequest) ==
    [op |-> op, model |-> model, params |-> params,
     atRequest |-> atRequest, atCall |-> lastCompleted]

\* home page: handlePredict, which has no await
HomeHandlePredict ==
    /\ page = "home"
    /\ ~predictLoading
    /\ Len(runs) + requests < MaxEvents
    /\ requests' = requests + 1
    /\ \E filled \in BOOLEAN :
          IF ~filled
          THEN predictError' = FieldsRequired /\ predictResult' = Null /\ UNCHANGED calls
          ELSE IF IsNull(trainedModel) \/ IsNull(normalizationParams)
          THEN predictError' = ModelFirstPredict /\ predictResult' = Null /\ UNCHANGED calls
          ELSE /\ calls' = calls \cup
                     {Call("predict", trainedModel, normalizationParams, lastCompleted)}
               /\ predictResult' = ObjectValue([request |-> requests + 1,
                                                model |-> selectedModel])
               /\ predictError' = Null
    /\ UNCHANGED <<predictLoading, predictPending, trainedModel, normalizationParams,
                   trainingLoading, trainingError, trainingResult, runs, lastCompleted,
                   batchFile, batchLoading, batchRuns, batchVars,
                   encVars, genVars, predVars, evalVars, csvVars, normVars>>

\* dashboard page: handlePredict up to its await of the 1500 ms timer
DashboardHandlePredict ==
    /\ page = "dashboard"
    /\ ~predictLoading
    /\ Len(runs) + requests < MaxEvents
    /\ requests' = requests + 1
    /\ predictResult' = Null
    /\ \E filled \in BOOLEAN :
          IF ~filled
          THEN /\ predictError' = FieldsRequired
               /\ UNCHANGED <<predictLoading, predictPending>>
          ELSE /\ predictError' = Null
               /\ predictLoading' = TRUE
               /\ predictPending' = Append(predictPending,
                                      [request |-> requests + 1, model |-> selectedModel])
    /\ UNCHANGED <<calls, trainedModel, normalizationParams,
                   trainingLoading, trainingError, trainingResult, runs, lastCompleted,
                   batchFile, batchLoading, batchRuns, batchVars,
                   encVars, genVars, predVars, evalVars, csvVars, normVars>>

\* dashboard page: the timer fires and handlePredict draws its result
DashboardPredictTimer ==
    /\ predictPending # <<>>
    /\ predictPending' = Tail(predictPending)
    /\ predictResult' = ObjectValue(Head(predictPending))
    /\ predictLoading' = FALSE
    /\ UNCHANGED <<predictError, requests, calls, trainedModel, normalizationParams,
                   trainingLoading, trainingError, trainingResult, runs, lastCompleted,
                   batchFile, batchLoading, batchRuns, batchVars,
                   encVars, genVars, predVars, evalVars, csvVars, normVars>>

\* what a selected file turns out to hold when it is read and encoded: rows,
\* or no valid row
FileKinds == {"rows", "norows"}

HandleFileSelect ==
    /\ \E valid \in BOOLEAN, kind \in FileKinds :
          IF ~valid
          THEN batchError' = InvalidFile /\ UNCHANGED <<batchFile, batchResult>>
          ELSE batchFile' = ObjectValue(kind) /\ batchError' = Null /\ batchResult' = Null
    /\ UNCHANGED <<page, selectedModel, batchPc, trainedModel, normalizationParams,
                   trainingLoading, trainingError, trainingResult, runs, lastCompleted,
                   predictLoading, predictResult, predictError, predictPending,
                   batchLoading, batchRuns, requests, calls,
                   encVars, genVars, predVars, evalVars, csvVars, normVars>>

\* handleResetAll; it leaves a run in flight running, and resetSince of that
\* run remembers that the reset came after its start
HandleResetAll ==
    /\ predictLoading' = FALSE
    /\ predictError' = Null
    /\ batchFile' = Null
    /\ batchLoading' = FALSE
    /\ batchResult' = Null
    /\ batchError' = Null
    /\ batchRuns' = {[b EXCEPT !.resetSince = TRUE] : b \in batchRuns}
    /\ UNCHANGED <<page, selectedModel, batchPc, trainedModel, normalizationParams,
                   trainingLoading, trainingError, trainingResult, runs, lastCompleted,
                   predictResult, predictPending, requests, calls,
                   encVars, genVars, predVars, evalVars, csvVars, normVars>>

\* the prediction-mode toggle: both results are cleared, nothing else
HandleModeToggle ==
    /\ predictResult' = Null
    /\ batchResult' = Null
    /\ UNCHANGED <<page, selectedModel, batchPc, batchError, trainedModel, normalizationParams,
                   trainingLoading, trainingError, trainingResult, runs, lastCompleted,
                   predictLoading, predictError, predictPending,
                   batchFile, batchLoading, batchRuns, requests, calls,
                   encVars, genVars, predVars, evalVars, csvVars, normVars>>

\* handleBatchProcess up to its first await; the button is disabled without
\* a file and while batchLoading
HandleBatchProcess ==
    /\ ~IsNull(batchFile)
    /\ ~batchLoading
    /\ Len(runs) + requests < MaxEvents
    /\ requests' = requests + 1
    /\ IF page = "home" /\ (IsNull(trainedModel) \/ IsNull(normalizationParams))
       THEN batchError' = ModelFirstBatch /\ UNCHANGED <<batchLoading, batchRuns>>
       ELSE /\ batchLoading' = TRUE
            /\ batchError' = Null
            /\ batchRuns' = batchRuns \cup
                  {[id |-> requests + 1, pc |-> "reading", file |-> batchFile.v,
                    model |-> trainedModel, params |-> normalizationParams,
                    atRequest |-> lastCompleted, resetSince |-> FALSE]}
    /\ UNCHANGED <<page, selectedModel, batchPc, batchResult, batchFile, calls,
                   trainedModel, normalizationParams,
                   trainingLoading, trainingError, trainingResult, runs, lastCompleted,
                   predictLoading, predictResult, predictError, predictPending,
                   encVars, genVars, predVars, evalVars, csvVars, normVars>>

\* the file of a batch run is read: parsing, encoding and, on the home page,
\* predictBatch with the model and parameters of the render the click happened in
BatchFileRead ==
    /\ \E b \in batchRuns :
          /\ b.pc = "reading"
          /\ IF b.file = "rows"
             THEN /\ batchRuns' = (batchRuns \ {b}) \cup {[b EXCEPT !.pc = "progress"]}
                  /\ calls' = IF page = "home"
                              THEN calls \cup {Call("predictBatch", b.model, b.params,
                                                    b.atRequest)}
                              ELSE calls
                  /\ UNCHANGED <<batchError, batchLoading>>
             ELSE /\ batchRuns' = batchRuns \ {b}
                  /\ batchError' = NoValidData
                  /\ batchLoading' = FALSE
                  /\ UNCHANGED calls
    /\ UNCHANGED <<page, selectedModel, batchPc, batchResult, batchFile, requests,
                   trainedModel, normalizationParams,
                   trainingLoading, trainingError, trainingResult, runs, lastCompleted,
                   predictLoading, predictResult, predictError, predictPending,
                   encVars, genVars, predVars, evalVars, csvVars, normVars>>

\* the progress loop of a batch run ends: the result is built and stored, or
\* building the matrix throws; finally batchLoading is cleared
BatchFinish ==
    /\ \E b \in batchRuns :
          /\ b.pc = "progress"
          /\ batchRuns' = batchRuns \ {b}
          /\ \E threw \in (IF page = "home" THEN BOOLEAN ELSE {FALSE}) :
                IF threw
                THEN batchError' = StringValue("TypeError") /\ UNCHANGED batchResult
                ELSE batchResult' = ObjectValue([run |-> b.id]) /\ UNCHANGED batchError
    /\ batchLoading' = FALSE
    /\ UNCHANGED <<page, selectedModel, batchPc, batchFile, requests, calls,
                   trainedModel, normalizationParams,
                   trainingLoading, trainingError, trainingResult, runs, lastCompleted,
                   predictLoading, predictResult, predictError, predictPending,
                   encVars, genVars, predVars, evalVars, csvVars, normVars>>

NextSession ==
    \/ NavHandleTrain \/ DashboardHandleTrain \/ FitResolves \/ FitRaises
    \/ HomeHandlePredict \/ DashboardHandlePredict \/ DashboardPredictTimer
    \/ HandleFileSelect \/ HandleResetAll \/ HandleModeToggle
    \/ HandleBatchProcess \/ BatchFileRead \/ BatchFinish

SpecSession == InitSession /\ [][NextSession]_vars

(***************************************************************************)
(* Claims about the feature encoder.                                       *)

(***************************************************************************)
(* Min-max normalization: normalizeFeatures on the training features, and  *)
(* the normalization predict and predictBatch apply to their input with    *)
(* the min and max of the training run.  A quotient of two integers is     *)
(* kept exact, in lowest terms with a positive denominator.                *)
(***************************************************************************)
MaxTrainRows == 2
MaxInfer == 2
NormColumns == 2
NormValues == {-1, 0, 2}

Abs(x) == IF x < 0 THEN -x ELSE x
Frac(n, d) ==
    LET g == GCD(Abs(n), Abs(d))
        sgn == IF d < 0 THEN -1 ELSE 1
    IN  [n |-> sgn * (n \div g), d |-> sgn * (d \div g)]

FracZero == [n |-> 0, d |-> 1]
FracOne == [n |-> 1, d |-> 1]

\* features.map((row) => row[i])
column(features, i) == {features[r][i] : r \in 1..Len(features)}

\* row.map((value, i) => ...) of normalizeFeatures, without the shift by min
normalizeValue_noShift(value, lo, hi) ==
    IF hi - lo = 0 THEN FracZero ELSE Frac(value, hi - lo)

\* row.map((value, i) => ...) of normalizeFeatures
normalizeValue(value, lo, hi) ==
    IF hi - lo = 0 THEN FracZero ELSE Frac(value - lo, hi - lo)

normalizeFeatures(features) ==
    LET numFeatures == Len(features[1])
        min == [i \in 1..numFeatures |-> Min(column(features, i))]
        max == [i \in 1..numFeatures |-> Max(column(features, i))]
    IN  [state |-> "done",
         normalized |-> [r \in 1..Len(features) |->
                            [i \in 1..Len(features[r]) |->
                                normalizeValue(features[r][i], min[i], max[i])]],
         min |-> min, max |-> max]

\* predict: features.map((value, i) => ...)
predictNormalized(features, norm) ==
    [i \in 1..Len(features) |->
        IF norm.max[i] - norm.min[i] = 0 THEN FracZero
        ELSE Frac(features[i] - norm.min[i], norm.max[i] - norm.min[i])]

\* predictBatch: featuresArray.map((features) => features.map((value, i) => ...))
predictBatchNormalized(fa, norm) ==
    [r \in 1..Len(fa) |->
        [i \in 1..Len(fa[r]) |->
            IF norm.max[i] - norm.min[i] = 0 THEN FracZero
            ELSE Frac(fa[r][i] - norm.min[i], norm.max[i] - norm.min[i])]]

NormVectors == [1..NormColumns -> NormValues]
InferVectors == {<<-1, 2>>, <<0, 0>>, <<3, -1>>}

InitNorm ==
    /\ trainingFeatures \in SeqsUpTo(NormVectors, MaxTrainRows) \ {<<>>}
    /\ featuresArray \in SeqsUpTo(InferVectors, MaxInfer) \ {<<>>}
    /\ normalization = NotRun
    /\ predictInput = NotRun
    /\ batchInput = NotRun
    /\ EncIdle
    /\ GenIdle
    /\ PredIdle
    /\ EvalIdle
    /\ BatchIdle
    /\ SessionIdle
    /\ CsvIdle

\* the training functions: normalizeFeatures(data.features)
NormalizeFeatures ==
    /\ normalization = NotRun
    /\ normalization' = normalizeFeatures(trainingFeatures)
    /\ UNCHANGED <<trainingFeatures, featuresArray, predictInput, batchInput,
                   encVars, genVars, predVars, evalVars, batchVars, sessionVars, csvVars>>

\* predict on the first vector of the request, with the trained normalization
PredictNormalize ==
    /\ normalization # NotRun
    /\ predictInput = NotRun
    /\ predictInput' = [state |-> "done",
                        normalized |-> predictNormalized(featuresArray[1], normalization)]
    /\ UNCHANGED <<trainingFeatures, normalization, featuresArray, batchInput,
                   encVars, genVars, predVars, evalVars, batchVars, sessionVars, csvVars>>

\* predictBatch on the vectors of the request, with the trained normalization
PredictBatchNormalize ==
    /\ normalization # NotRun
    /\ batchInput = NotRun
    /\ batchInput' = [state |-> "done",
                      normalized |-> predictBatchNormalized(featuresArray, normalization)]
    /\ UNCHANGED <<trainingFeatures, normalization, featuresArray, predictInput,
                   encVars, genVars, predVars, evalVars, batchVars, sessionVars, csvVars>>

NextNorm == NormalizeFeatures \/ PredictNormalize \/ PredictBatchNormalize

SpecNorm == InitNorm /\ [][NextNorm]_vars

(***************************************************************************)
(* The delimited-text parser (parseCSV) and the encoding of what it        *)
(* returns, as handleBatchProcess of the dashboard page runs them on the   *)
(* text of the selected file.                                              *)
(***************************************************************************)
Quote == "\""
Comma == ","

\* content.split(/\r?\n/) from position i on, cur being the piece in progress
RECURSIVE splitLinesFrom(_, _, _)
splitLinesFrom(s, i, cur) ==
    IF i > Len(s) THEN <<cur>>
    ELSE IF s[i] = "\n" THEN <<cur>> \o splitLinesFrom(s, i + 1, <<>>)
    ELSE IF s[i] = "\r" /\ i + 1 <= Len(s) /\ s[i + 1] = "\n"
    THEN <<cur>> \o splitLinesFrom(s, i + 2, <<>>)
    ELSE splitLinesFrom(s, i + 1, Append(cur, s[i]))

splitLines(s) == splitLinesFrom(s, 1, <<>>)

\* .filter((line) => line.trim().length > 0), keeping every piece
nonBlankLines_keepBlank(ls) == ls

\* .filter((line) => line.trim().length > 0)
RECURSIVE nonBlankLines(_)
nonBlankLines(ls) ==
    IF ls = <<>> THEN <<>>
    ELSE IF Len(trim(Head(ls))) > 0 THEN <<Head(ls)>> \o nonBlankLines(Tail(ls))
    ELSE nonBlankLines(Tail(ls))

\* lines[0].split(","): every piece between commas, empty pieces included
RECURSIVE splitCommasFrom(_, _, _)
splitCommasFrom(s, i, cur) ==
    IF i > Len(s) THEN <<cur>>
    ELSE IF s[i] = Comma THEN <<cur>> \o splitCommasFrom(s, i + 1, <<>>)
    ELSE splitCommasFrom(s, i + 1, Append(cur, s[i]))

\* .map((h) => h.trim())
RECURSIVE trimEach(_)
trimEach(ss) == IF ss = <<>> THEN <<>> ELSE <<trim(Head(ss))>> \o trimEach(Tail(ss))

\* the position of the first c at or after i, Len(s) + 1 when there is none
RECURSIVE indexFrom(_, _, _)
indexFrom(s, c, i) ==
    IF i > Len(s) \/ s[i] = c THEN i ELSE indexFrom(s, c, i + 1)

\* the first alternative of the regular expression, "(?:[^"]*(?:""[^"]*)*)",
\* once its [^"]* has stopped at the quote at q: the group (?:""[^"]*)* is
\* repeated as long as a closing quote can still follow, else q closes
RECURSIVE closeAt(_, _)
closeAt(s, q) ==
    IF q + 1 <= Len(s) /\ s[q + 1] = Quote /\ indexFrom(s, Quote, q + 2) <= Len(s)
    THEN closeAt(s, indexFrom(s, Quote, q + 2))
    ELSE q

\* the end of the match of the first alternative at the quote at i, 0 when
\* it does not match there
quotedEnd(s, i) ==
    IF indexFrom(s, Quote, i + 1) <= Len(s)
    THEN closeAt(s, indexFrom(s, Quote, i + 1))
    ELSE 0

\* line.matchAll(regex) from position i on: the matched texts in order.
\* Where neither alternative matches (at a comma) the search moves on by one.
RECURSIVE matchAll(_, _)
matchAll(s, i) ==
    IF i > Len(s) THEN <<>>
    ELSE IF s[i] = Quote /\ quotedEnd(s, i) # 0
    THEN <<SubSeq(s, i, quotedEnd(s, i))>> \o matchAll(s, quotedEnd(s, i) + 1)
    ELSE IF s[i] # Comma
    THEN <<SubSeq(s, i, indexFrom(s, Comma, i) - 1)>> \o matchAll(s, indexFrom(s, Comma, i))
    ELSE matchAll(s, i + 1)

\* .replace(/""/g, '"')
RECURSIVE replaceDoubled(_)
replaceDoubled(s) ==
    IF s = <<>> THEN <<>>
    ELSE IF Len(s) >= 2 /\ s[1] = Quote /\ s[2] = Quote
    THEN <<Quote>> \o replaceDoubled(SubSeq(s, 3, Len(s)))
    ELSE <<Head(s)>> \o replaceDoubled(Tail(s))

\* the body of the loop over the matches: unwrap a quoted text, then trim
cellOf(m) ==
    IF m # <<>> /\ m[1] = Quote /\ m[Len(m)] = Quote
    THEN trim(replaceDoubled(SubSeq(m, 2, Len(m) - 1)))
    ELSE trim(m)

RECURSIVE cellsOf(_)
cellsOf(ms) == IF ms = <<>> THEN <<>> ELSE <<cellOf(Head(ms))>> \o cellsOf(Tail(ms))

\* lines.slice(1).map((line) => ...)
RECURSIVE rowsOf(_)
rowsOf(ls) ==
    IF ls = <<>> THEN <<>> ELSE <<cellsOf(matchAll(Head(ls), 1))>> \o rowsOf(Tail(ls))

MalformedCsv == "El archivo CSV debe tener encabezados y al menos una fila de datos"

\* the lines parseCSV works on
csvLines(text) == nonBlankLines(splitLines(trim(text)))

parseCSVLines(lines) ==
    IF Len(lines) < 2 THEN [state |-> "threw", error |-> MalformedCsv]
    ELSE [state |-> "returned",
          headers |-> trimEach(splitCommasFrom(lines[1], 1, <<>>)),
          rows |-> rowsOf(Tail(lines))]

parseCSV(text) == parseCSVLines(csvLines(text))

(***************************************************************************)
(* Parser inputs: every short text over the characters that matter to the  *)
(* line splitting, every short data line over the characters that matter   *)
(* to the field matching, and small tables of encoder cells.               *)
(***************************************************************************)
MaxChars == 5
MaxLine == 5

LineChars == {"a", ",", " ", "\n", "\r"}
FieldChars == {"1", ",", Quote, " "}

RECURSIVE Join(_, _)
Join(ss, sep) ==
    IF ss = <<>> THEN <<>>
    ELSE IF Len(ss) = 1 THEN ss[1]
    ELSE ss[1] \o sep \o Join(Tail(ss), sep)

RECURSIVE JoinLines(_)
JoinLines(table) ==
    IF table = <<>> THEN <<>> ELSE Join(Head(table), <<Comma>>) \o <<"\n">> \o JoinLines(Tail(table))

tUrbanUp == <<"U","R","B","A","N">>
tUrban == <<"u","r","b","a","n">>
tMale == <<"m","a","l","e">>
tMalaria == <<"m","a","l","a","r","i","a">>
hGender == <<"g","e","n","d","e","r">>

Scenario1 == JoinLines(<< <<hAge, hGender, hDiagnosis>>,
                          <<t30, tM, tDengue>>,
                          <<t40, tF, tMalaria>> >>)
Scenario2 == JoinLines(<< <<hAge, hGender, hDiagnosis>>,
                          <<t30, tM, tDengue>>,
                          <<t40, tEmpty, tEmpty>> >>)

CsvHeaderLines == {Join(<<hAge>>, <<Comma>>), Join(<<hAge, hFever>>, <<Comma>>)}
GenderCells == {tM, tm, tF, tMale, tx}
ResidenceCells == {tUrban, tUrbanUp, tUrbana, tRural}
DiagnosisCells == {tDengue, tMalariaCap, tZika}

CsvContents ==
    SeqsUpTo(LineChars, MaxChars)
    \cup {h \o <<"\n">> \o l : h \in CsvHeaderLines, l \in SeqsUpTo(FieldChars, MaxLine)}
    \cup {JoinLines(<< <<hGenderCap, hResidence, hDiagnosis>>, <<g, r, d>> >>) :
            g \in GenderCells, r \in ResidenceCells, d \in DiagnosisCells}
    \cup {Scenario1, Scenario2}

InitCsv ==
    /\ content \in CsvContents
    /\ csv = NotRun
    /\ EncIdle
    /\ GenIdle
    /\ PredIdle
    /\ EvalIdle
    /\ BatchIdle
    /\ SessionIdle
    /\ NormIdle

\* const parsed = parseCSV(fileContent)
ParseCSV ==
    /\ csv = NotRun
    /\ csv' = parseCSV(content)
    /\ UNCHANGED <<content, encVars, genVars, predVars, evalVars, batchVars, sessionVars, normVars>>

\* headers = parsed.headers; rows = parsed.rows; convertToTrainingData(headers, rows)
\* (a throw of parseCSV leaves the try block: nothing is encoded)
ConvertParsed ==
    /\ csv.state = "returned"
    /\ enc = NotRun
    /\ headers' = csv.headers
    /\ rows' = csv.rows
    /\ enc' = convertToTrainingData(csv.headers, csv.rows)
    /\ UNCHANGED <<csvVars, genVars, predVars, evalVars, batchVars, sessionVars, normVars>>

NextCsv == ParseCSV \/ ConvertParsed

SpecCsv == InitCsv /\ [][NextCsv]_vars

(***************************************************************************)
SchemaSize == 53

OneHotPositions == {2, 3} \cup (4..10) \cup (13..33)
FlagPositions == (4..10) \cup (13..33)

HasDiagnosisHeader ==
    \E j \in 1..Len(headers) : toLowerCase(headers[j]) = labelColumn

\* C1: convertToTrainingData returns rowCount equal to the number of feature
\* vectors; labels has that same length when a diagnosis column is present and
\* is empty otherwise; every feature vector has exactly 53 entries.
C1_EncodeShape ==
    enc.state = "done" =>
        /\ enc.rowCount = Len(enc.features)
        /\ enc.hasLabels = HasDiagnosisHeader
        /\ HasDiagnosisHeader => Len(enc.labels) = Len(enc.features)
        /\ ~HasDiagnosisHeader => enc.labels = <<>>
        /\ \A i \in 1..Len(enc.features) : Len(enc.features[i]) = SchemaSize

\* a file with a diagnosis column of which one row is encoded and one skipped
C1_Witness ==
    /\ enc.state = "done"
    /\ HasDiagnosisHeader
    /\ enc.rowCount = 1
    /\ Len(rows) = 2
    /\ Len(enc.labels) = 1

\* C2 as stated: every one-hot position of every feature vector is 0 or 1,
\* whatever the cell text.
C2_OneHotAlways01 ==
    enc.state = "done" =>
        \A i \in 1..Len(enc.features) :
            \A f \in OneHotPositions : enc.features[i][f] \in {Zero, One}

IsFlagHeader(h) ==
    \E f \in FlagPositions : toLowerCase(h) = toLowerCase(featureColumns[f])

\* C2 as amended: the gender and residence positions are 0 or 1 whatever the
\* cell text; the occupation and symptom flags are 0 or 1 in every row whose
\* cells under the flag headers are the texts "0" or "1".
C2_OneHotAmended ==
    enc.state = "done" =>
        \A i \in 1..Len(enc.features) :
            /\ enc.features[i][2] \in {Zero, One}
            /\ enc.features[i][3] \in {Zero, One}
            /\ (\A j \in 1..Len(headers) :
                    IsFlagHeader(headers[j]) => keptRows(headers, rows)[i][j] \in {t0, t1})
                => \A f \in FlagPositions : enc.features[i][f] \in {Zero, One}

\* a row with gender M under a header "Gender" and fever "1" is encoded
C2_Witness ==
    /\ enc.state = "done"
    /\ \E i \in 1..Len(enc.features) :
          /\ enc.features[i][2] = One
          /\ enc.features[i][13] = One
          /\ keptRows(headers, rows)[i] = <<t30, tM, t1>>

(***************************************************************************)
(* Claims about the synthetic cohort generator.                            *)
(***************************************************************************)
LabelCount(c) == Cardinality({i \in 1..Len(genLabels) : genLabels[i] = c})

\* C3: generateSampleData(count) with count divisible by 3 returns exactly
\* count/3 records of each class, every label is in {0,1,2}, and every feature
\* vector has length 53, for every outcome of the random draws.
C3_ExactThirds ==
    (genPc = "done" /\ numSamples % 3 = 0) =>
        /\ \A c \in 0..2 : LabelCount(c) = numSamples \div 3
        /\ \A i \in 1..Len(genLabels) : genLabels[i] \in 0..2
        /\ \A i \in 1..Len(genFeatures) : Len(genFeatures[i]) = SchemaSize

\* C4: for every count >= 3, generateSampleData(count) returns exactly count
\* labelled records in which all three classes occur and the per-class label
\* counts differ by at most 1, for every outcome of the random draws.
C4_NearBalanced ==
    (genPc = "done" /\ numSamples >= 3) =>
        /\ Len(genLabels) = numSamples
        /\ Len(genFeatures) = numSamples
        /\ \A c \in 0..2 : LabelCount(c) >= 1
        /\ \A c, d \in 0..2 : LabelCount(c) - LabelCount(d) <= 1

(***************************************************************************)
(* Claims about the calibration and decision layer.                        *)
(***************************************************************************)
\* the lowest class index (0-based) that maximises ps
LowestArgmax(ps) == Min({c \in 1..Len(ps) : \A d \in 1..Len(ps) : ps[c] >= ps[d]}) - 1

ClassOf(label) == (CHOOSE c \in 1..Len(DISEASE_LABELS) : DISEASE_LABELS[c] = label) - 1

\* C5: the label returned by predict and by predictBatch for a row is the
\* lowest-index class that maximises the temperature-scaled, renormalised
\* probabilities of that row.
C5_HonestArgmax ==
    predOut.state = "done" =>
        \A i \in 1..Len(predOut.results) :
            ClassOf(predOut.results[i].disease)
                = LowestArgmax(normalizedProbs(lib, probabilitiesArray[i]))

\* C6: the confidence reported for a record equals the temperature-scaled
\* probability of the class predicted for that record.
C6_ConfidenceIsScaledProb ==
    predOut.state = "done" =>
        \A i \in 1..Len(predOut.results) :
            predOut.results[i].confidence
                = normalizedProbs(lib, probabilitiesArray[i])[ClassOf(predOut.results[i].disease) + 1]

\* C7: predictBatch returns one entry per input row, in input order, and the
\* entry of row i is the one predictBatch returns for that row on its own.
C7_PerRecordMap ==
    (predOut.state = "done" /\ predOut.op = "predictBatch") =>
        /\ Len(predOut.results) = Len(probabilitiesArray)
        /\ \A i \in 1..Len(probabilitiesArray) :
              predOut.results[i] = predictBatch(lib, << probabilitiesArray[i] >>)[1]

(***************************************************************************)
(* Claims about the evaluation engine.                                     *)
(***************************************************************************)
\* C8: metrics of the confusion matrix of empty prediction/actual sequences
\* (the all-zero matrix): no division by zero, and accuracy, precision, recall
\* and F1 are all 0.
C8_EmptyMetricsZero ==
    (evalPc = "done" /\ predictions = <<>> /\ actuals = <<>>) =>
        /\ matrix = ZeroMatrix
        /\ metrics.accuracy = 0
        /\ metrics.precision = 0
        /\ metrics.recall = 0
        /\ metrics.f1Score = 0

Resolvable == {i \in 1..Len(actuals) : actuals[i] \in 0..2}

\* C9: building a confusion matrix never fails on an unmapped actual label:
\* such a pair is skipped, every other pair increments cell [actual][predicted],
\* and the cell sum is the number of pairs with a resolvable actual label.
C9_UnmappedSkipped ==
    evalPc # "call" =>
        /\ evalPc # "threw"
        /\ \A a, p \in 0..2 :
              matrix[a + 1][p + 1]
                = Cardinality({i \in Resolvable : actuals[i] = a /\ predictions[i] = p})

(***************************************************************************)
(* Claims about batch processing.                                          *)
(***************************************************************************)
\* the class of the actual label shown with a prediction, -1 if it has none
ActualClass(actual) ==
    IF actual.t # "string" THEN 0 - 1
    ELSE LET mapped == homeDiseaseMap(trim(actual.v))
         IN  IF mapped.t = "number" THEN mapped.v ELSE 0 - 1

Evaluated(preds) == {i \in 1..Len(preds) : ActualClass(preds[i].actual) # 0 - 1}

CellSum(m) ==
    m[1][1] + m[1][2] + m[1][3] + m[2][1] + m[2][2] + m[2][3] + m[3][1] + m[3][2] + m[3][3]

\* C10: whenever handleBatchProcess reports a confusion matrix, cell [a][p] is
\* the number of its own predictions with actual class a and predicted class p,
\* the cells sum to the number of evaluated records, and the reported accuracy,
\* precision and recall are those of that matrix.
C10_MatrixCountsOwnPredictions ==
    (batchPc = "finished" /\ batchResult.t = "object"
        /\ batchResult.v.confusionMatrix.t = "object") =>
        LET preds == batchResult.v.predictions
            m == batchResult.v.confusionMatrix.v
            derived == calculateMetrics(m)
            reported == batchResult.v.metrics.v
        IN  /\ \A a, p \in 0..2 :
                  m[a + 1][p + 1] = Cardinality({i \in Evaluated(preds) :
                                        /\ ActualClass(preds[i].actual) = a
                                        /\ ClassOf(preds[i].predicted) = p})
            /\ CellSum(m) = Cardinality(Evaluated(preds))
            /\ reported.accuracy = OrZero(derived.accuracy)
            /\ reported.precision = derived.precision
            /\ reported.recall = derived.recall

(***************************************************************************)
(* Claims about the session.                                               *)
(***************************************************************************)
\* C11: as long as no training run has completed in the session, no inference
\* request produces a prediction result (single or batch) and none calls the
\* classifier.
C11_NoInferenceBeforeTraining ==
    lastCompleted = 0 =>
        /\ IsNull(predictResult)
        /\ IsNull(batchResult)
        /\ calls = {}

\* C12 as stated: every predict/predictBatch call uses the model and the
\* parameters of the training run that is the most recently completed one
\* when the call is made.
C12_CallUsesLatestRun ==
    \A c \in calls : c.model = ObjectValue(c.atCall) /\ c.params = ObjectValue(c.atCall)

\* C12 amended: every predict/predictBatch call uses the model and the
\* parameters of one and the same training run, the most recently completed
\* one when the request was issued, and no call changes the session's pair.
C12_CallUsesRunOfRequest ==
    /\ [](\A c \in calls :
            c.model = ObjectValue(c.atRequest) /\ c.params = ObjectValue(c.atRequest))
    /\ [][calls' # calls => UNCHANGED <<trainedModel, normalizationParams>>]_vars

C12_Witness ==
    \E c \in calls : c.op = "predictBatch" /\ c.atRequest # c.atCall /\ c.atRequest > 0

\* C13: when the fit of a training run raises, the session's model and
\* parameters and the selected model type are unchanged, no result is shown,
\* the dialog shows the error and its trainingLoading is false again.
C13_FailedFitInstallsNothing ==
    [][\A r \in 1..Len(runs) :
          (runs[r].status = "fitting" /\ runs'[r].status = "raised") =>
              /\ UNCHANGED <<trainedModel, normalizationParams, selectedModel>>
              /\ IsNull(trainingResult'[runs[r].dialog])
              /\ ~IsNull(trainingError'[runs[r].dialog])
              /\ ~trainingLoading'[runs[r].dialog]]_vars

C13_Witness ==
    \E r \in 1..Len(runs) :
        /\ runs[r].status = "raised"
        /\ runs[r].dialog = "nav"
        /\ ~IsNull(trainedModel)
        /\ trainedModel.v < r

NavFitting == {r \in Fitting : runs[r].dialog = "nav"}

RECURSIVE CompleteRows(_, _)
CompleteRows(hs, rs) ==
    IF rs = <<>> THEN <<>>
    ELSE (IF /\ Len(Head(rs)) > 0
             /\ \E i \in 1..Len(Head(rs)) : Len(Head(rs)[i]) > 0
             /\ Len(Head(rs)) >= Len(hs)
          THEN <<Head(rs)>> ELSE <<>>) \o CompleteRows(hs, Tail(rs))

\* C15: convertToTrainingData encodes exactly the complete rows, in order:
\* a row with zero cells, with every cell empty, or with fewer cells than
\* headers adds no feature vector and no label and is not counted in
\* rowCount; the data line "40,," under a 3-column header is not counted.
C15_SkipsExactlyIncompleteRows ==
    enc.state = "done" =>
        LET complete == CompleteRows(headers, rows)
            featureIndices == featureIndicesFrom(toLowerCaseEach(headers), 1)
        IN  /\ enc.rowCount = Len(complete)
            /\ Len(enc.features) = Len(complete)
            /\ \A i \in 1..Len(complete) :
                   enc.features[i] = encodeRow(featureIndices, complete[i])
            /\ enc.hasLabels => Len(enc.labels) = Len(complete)
            /\ content = Scenario2 => enc.rowCount = 1

C15_Witness ==
    /\ enc.state = "done"
    /\ content = Scenario2
    /\ Len(headers) = 3
    /\ Len(rows) = 2
    /\ enc.rowCount = 1

\* a text free of quotes, or a text wholly wrapped in one pair of quotes
\* whose inside holds quotes only doubled
RECURSIVE OnlyDoubledQuotes(_)
OnlyDoubledQuotes(s) ==
    IF s = <<>> THEN TRUE
    ELSE IF Head(s) # Quote THEN OnlyDoubledQuotes(Tail(s))
    ELSE Len(s) >= 2 /\ s[2] = Quote /\ OnlyDoubledQuotes(SubSeq(s, 3, Len(s)))

IsQuotedField(f) ==
    Len(f) >= 2 /\ f[1] = Quote /\ f[Len(f)] = Quote
    /\ OnlyDoubledQuotes(SubSeq(f, 2, Len(f) - 1))

IsPlainField(f) == \A i \in 1..Len(f) : f[i] # Quote

\* the fields of a data line: the pieces between the commas that stand
\* outside quotes (inQuotes tells whether position i is inside a quoted field)
RECURSIVE FieldsFrom(_, _, _, _)
FieldsFrom(s, i, cur, inQuotes) ==
    IF i > Len(s) THEN <<cur>>
    ELSE IF s[i] = Comma /\ ~inQuotes THEN <<cur>> \o FieldsFrom(s, i + 1, <<>>, FALSE)
    ELSE FieldsFrom(s, i + 1, Append(cur, s[i]), IF s[i] = Quote THEN ~inQuotes ELSE inQuotes)

Fields(line) == FieldsFrom(line, 1, <<>>, FALSE)

\* the cell a field stands for: the inside of a quoted field with its doubled
\* quotes made single, a plain field as it is; either without the white
\* space around it
RECURSIVE Unescaped(_)
Unescaped(s) ==
    IF s = <<>> THEN <<>>
    ELSE IF Head(s) = Quote THEN <<Quote>> \o Unescaped(SubSeq(s, 3, Len(s)))
    ELSE <<Head(s)>> \o Unescaped(Tail(s))

FieldValue(f) ==
    IF IsQuotedField(f) THEN trim(Unescaped(SubSeq(f, 2, Len(f) - 1))) ELSE trim(f)

WellFormedLine(line) ==
    \A k \in 1..Len(Fields(line)) : IsQuotedField(Fields(line)[k]) \/ IsPlainField(Fields(line)[k])

\* C16: for every data line made of plain fields and quoted fields, parseCSV
\* returns one cell per comma-separated field: the inside of a quoted field
\* (commas kept, doubled quotes made single, wrapping quotes removed), a
\* plain field trimmed.
C16_CellsAreTheFields ==
    csv.state = "returned" =>
        LET lines == Tail(csvLines(content))
        IN  \A i \in 1..Len(lines) :
                WellFormedLine(lines[i]) =>
                    /\ Len(csv.rows[i]) = Len(Fields(lines[i]))
                    /\ \A k \in 1..Len(csv.rows[i]) :
                           csv.rows[i][k] = FieldValue(Fields(lines[i])[k])

\* the number of non-blank lines of a text: the pieces between its \n
\* characters that hold a character other than white space (the \r of a
\* \r\n break is white space), counted from position i on; seen tells
\* whether the piece in progress holds such a character
RECURSIVE NonBlankCountFrom(_, _, _)
NonBlankCountFrom(s, i, seen) ==
    IF i > Len(s) THEN (IF seen THEN 1 ELSE 0)
    ELSE IF s[i] = "\n" THEN (IF seen THEN 1 ELSE 0) + NonBlankCountFrom(s, i + 1, FALSE)
    ELSE NonBlankCountFrom(s, i + 1, seen \/ s[i] \notin WhiteSpaceChars)

NonBlankCount(s) == NonBlankCountFrom(s, 1, FALSE)

\* C17: parseCSV throws exactly when the content has fewer than 2 non-blank
\* lines; otherwise it returns the headers of the first non-blank line and
\* one row per further non-blank line: blank lines and the breaks \n and \r\n
\* are never lines of their own.
C17_FailsUnderTwoLines ==
    csv # NotRun =>
        /\ csv.state \in {"threw", "returned"}
        /\ csv.state = "threw" <=> NonBlankCount(content) < 2
        /\ csv.state = "threw" => csv.error = MalformedCsv
        /\ csv.state = "returned" =>
              /\ Len(csv.headers) >= 1
              /\ Len(csv.rows) = NonBlankCount(content) - 1

\* a text with a \r\n break and a blank line is parsed into one data row
C17_Witness ==
    /\ csv.state = "returned"
    /\ Len(csv.rows) = 1
    /\ \E i \in 1..(Len(content) - 1) : content[i] = "\r" /\ content[i + 1] = "\n"
    /\ Len(splitLines(trim(content))) = 3

\* two texts equal up to the case of their letters
LetterOf(c) ==
    IF \E i \in 1..Len(UpperChars) : UpperChars[i] = c \/ LowerChars[i] = c
    THEN CHOOSE i \in 1..Len(UpperChars) : UpperChars[i] = c \/ LowerChars[i] = c
    ELSE 0

SameIgnoringCase(a, b) ==
    /\ Len(a) = Len(b)
    /\ \A i \in 1..Len(a) :
           a[i] = b[i] \/ (LetterOf(a[i]) # 0 /\ LetterOf(a[i]) = LetterOf(b[i]))

\* the first column whose header is the given name ignoring case, 0 if none
ColumnOf(hs, name) ==
    IF \E j \in 1..Len(hs) : SameIgnoringCase(hs[j], name)
    THEN Min({j \in 1..Len(hs) : SameIgnoringCase(hs[j], name)})
    ELSE 0

GenderColumnOfScenario1 == <<One, Zero>>
LabelsOfScenario1 == <<NumberValue(0), NumberValue(1)>>

\* C18: in every encoded row the gender position is 1 exactly when the cell
\* under the gender header is "M" ignoring case, else 0, and the residence
\* position is 1 exactly when the cell under the residence header is "urban"
\* or "urbana" ignoring case, else 0; the text of Scenario 1 is parsed and
\* encoded into 2 feature vectors with gender column [1,0] and labels [0,1].
C18_GenderAndResidenceFlags ==
    enc.state = "done" =>
        LET complete == CompleteRows(headers, rows)
            g == ColumnOf(headers, hGender)
            r == ColumnOf(headers, hResidence)
        IN  /\ Len(enc.features) = Len(complete)
            /\ \A i \in 1..Len(complete) :
                 /\ g # 0 =>
                      enc.features[i][2] =
                          IF SameIgnoringCase(complete[i][g], tM) THEN One ELSE Zero
                 /\ r # 0 =>
                      enc.features[i][3] =
                          IF \/ SameIgnoringCase(complete[i][r], tUrban)
                             \/ SameIgnoringCase(complete[i][r], tUrbana)
                          THEN One ELSE Zero
            /\ content = Scenario1 =>
                 /\ csv.headers = <<hAge, hGender, hDiagnosis>>
                 /\ Len(csv.rows) = 2
                 /\ Len(enc.features) = 2
                 /\ <<enc.features[1][2], enc.features[2][2]>> = GenderColumnOfScenario1
                 /\ enc.labels = LabelsOfScenario1

\* the text of Scenario 1 has been parsed and encoded
C18_Witness ==
    /\ content = Scenario1
    /\ csv.state = "returned"
    /\ enc.state = "done"
    /\ enc.features[1][2] = One
    /\ enc.rowCount = 2

\* a row with residence "URBAN" is encoded with residence 1, gender "m" with 1
C18_WitnessFlags ==
    /\ enc.state = "done"
    /\ Len(enc.features) = 1
    /\ rows[1][1] = tm /\ enc.features[1][2] = One
    /\ rows[1][2] = tUrbanUp /\ enc.features[1][3] = One

\* a cell that starts, after white space and an optional sign, with a decimal
\* number (digits with an optional fraction, or a fraction alone) or with
\* the word Infinity
StartsWithNumber(cell) ==
    LET t == trimStart(cell)
        u == IF t # <<>> /\ Head(t) \in {"+", "-"} THEN Tail(t) ELSE t
    IN  \/ u # <<>> /\ IsDigit(u[1])
        \/ Len(u) >= 2 /\ u[1] = "." /\ IsDigit(u[2])
        \/ Len(u) >= Len(InfinityText) /\ SubSeq(u, 1, Len(InfinityText)) = InfinityText

\* a cell that is, apart from white space around it, one decimal number:
\* an optional sign, digits with an optional fraction, an optional exponent
IsNumberText(cell) ==
    LET t == trim(cell)
        i1 == IF t # <<>> /\ t[1] \in {"+", "-"} THEN 2 ELSE 1
        i2 == DigitsEnd(t, i1)
        i3 == IF i2 <= Len(t) /\ t[i2] = "." THEN DigitsEnd(t, i2 + 1) ELSE i2
        nDigits == (i2 - i1) + (IF i3 > i2 THEN i3 - i2 - 1 ELSE 0)
        j1 == IF i3 <= Len(t) /\ t[i3] \in {"e", "E"}
              THEN (IF i3 + 1 <= Len(t) /\ t[i3 + 1] \in {"+", "-"} THEN i3 + 2 ELSE i3 + 1)
              ELSE i3
        i4 == IF j1 > i3 THEN DigitsEnd(t, j1) ELSE i3
    IN  /\ nDigits > 0
        /\ j1 > i3 => i4 > j1
        /\ i4 = Len(t) + 1

NumericPositions == (1..SchemaSize) \ {2, 3}

\* C19 as stated: every position of every feature vector is a number, never
\* NaN; a schema field no header matches is 0; a numeric field whose cell is
\* empty or is not a number is 0.
C19_NonNumbersAreZero ==
    enc.state = "done" =>
        LET complete == CompleteRows(headers, rows)
        IN  \A i \in 1..Len(enc.features) : \A f \in 1..SchemaSize :
                LET c == ColumnOf(headers, featureColumns[f])
                IN  /\ enc.features[i][f].k \in {"num", "inf"}
                    /\ c = 0 => enc.features[i][f] = Zero
                    /\ (f \in NumericPositions /\ c # 0 /\ ~IsNumberText(complete[i][c]))
                          => enc.features[i][f] = Zero

\* C19 amended: every position of every feature vector is a number, never
\* NaN; a schema field no header matches is 0; a numeric field whose cell
\* does not start with a number is 0, and one whose cell starts with a number
\* is that leading number, whatever text follows it.
C19_MissingAndUnparsedAreZero ==
    enc.state = "done" =>
        LET complete == CompleteRows(headers, rows)
        IN  \A i \in 1..Len(enc.features) : \A f \in 1..SchemaSize :
                LET c == ColumnOf(headers, featureColumns[f])
                IN  /\ enc.features[i][f].k \in {"num", "inf"}
                    /\ c = 0 => enc.features[i][f] = Zero
                    /\ (f \in NumericPositions /\ c # 0) =>
                          IF StartsWithNumber(complete[i][c])
                          THEN enc.features[i][f] = parseFloat(complete[i][c])
                          ELSE enc.features[i][f] = Zero

\* a row with age "x" is encoded with age 0, one with age "2x" with age 2,
\* and creatinine, which has no header, is 0
C19_Witness ==
    /\ enc.state = "done"
    /\ Len(enc.features) = 2
    /\ ColumnOf(headers, hAge) = 1
    /\ rows[1][1] = tx /\ enc.features[1][1] = Zero
    /\ rows[2][1] = t2x /\ enc.features[2][1] = Number(2, 0)
    /\ ColumnOf(headers, featureColumns[SchemaSize - 1]) = 0
    /\ enc.features[1][SchemaSize - 1] = Zero

tLeptospirosis == <<"l","e","p","t","o","s","p","i","r","o","s","i","s">>

\* the label the diagnosis text stands for
LabelOfText(text) ==
    IF SameIgnoringCase(text, tDengue) THEN 0
    ELSE IF SameIgnoringCase(text, tMalaria) THEN 1
    ELSE IF SameIgnoringCase(text, tLeptospirosis) THEN 2
    ELSE 0

\* C20: hasLabels is true exactly when a header is "diagnosis" ignoring case;
\* without it no label is extracted; with it every encoded row has one label,
\* 0, 1 or 2 for dengue, malaria or leptospirosis ignoring case, and 0 for
\* any other text and for the empty text.
C20_LabelsFromDiagnosis ==
    enc.state = "done" =>
        LET complete == CompleteRows(headers, rows)
            d == ColumnOf(headers, hDiagnosis)
        IN  /\ enc.hasLabels <=> d # 0
            /\ d = 0 => enc.labels = <<>>
            /\ d # 0 =>
                 /\ Len(enc.labels) = Len(complete)
                 /\ \A i \in 1..Len(complete) :
                        enc.labels[i] = NumberValue(LabelOfText(complete[i][d]))

InUnitInterval(q) == q.d > 0 /\ 0 <= q.n /\ q.n <= q.d

\* C21: normalizeFeatures on a non-empty training set returns max[i] >= min[i]
\* for every column and maps every value into [0,1], a column's minimum to 0
\* and its maximum to 1 when they differ, and every value of a column whose
\* maximum equals its minimum to 0; predict and predictBatch map an inference
\* value v of column i to (v - min[i]) / (max[i] - min[i]), and to 0 when
\* max[i] = min[i].
C21_MinMaxNormalization ==
    normalization # NotRun =>
        LET X == trainingFeatures
            N == normalization
            Rule(v, i) == IF N.max[i] = N.min[i] THEN FracZero
                          ELSE Frac(v - N.min[i], N.max[i] - N.min[i])
        IN  /\ \A i \in 1..NormColumns :
                 /\ N.max[i] >= N.min[i]
                 /\ \A r \in 1..Len(X) : N.min[i] <= X[r][i] /\ X[r][i] <= N.max[i]
                 /\ \E r \in 1..Len(X) : X[r][i] = N.min[i]
                 /\ \E r \in 1..Len(X) : X[r][i] = N.max[i]
            /\ \A r \in 1..Len(X) : \A i \in 1..NormColumns :
                 /\ InUnitInterval(N.normalized[r][i])
                 /\ (N.max[i] # N.min[i] /\ X[r][i] = N.min[i]) => N.normalized[r][i] = FracZero
                 /\ (N.max[i] # N.min[i] /\ X[r][i] = N.max[i]) => N.normalized[r][i] = FracOne
                 /\ N.max[i] = N.min[i] => N.normalized[r][i] = FracZero
            /\ predictInput # NotRun =>
                 \A i \in 1..NormColumns :
                     predictInput.normalized[i] = Rule(featuresArray[1][i], i)
            /\ batchInput # NotRun =>
                 \A r \in 1..Len(featuresArray) : \A i \in 1..NormColumns :
                     batchInput.normalized[r][i] = Rule(featuresArray[r][i], i)

\* a training set with a degenerate column and a column with two values has
\* been normalized, and predict and predictBatch have normalized a request
C21_Witness ==
    /\ normalization # NotRun
    /\ Len(trainingFeatures) = 2
    /\ normalization.max[1] = normalization.min[1]
    /\ normalization.max[2] > normalization.min[2]
    /\ normalization.normalized[1][2] = FracZero
    /\ normalization.normalized[2][2] = FracOne
    /\ predictInput # NotRun
    /\ batchInput # NotRun
    /\ Len(featuresArray) = 2

\* sums over a 3x3 matrix
Diagonal(m) == m[1][1] + m[2][2] + m[3][3]
RowSum(m, i) == m[i][1] + m[i][2] + m[i][3]
ColumnSum(m, j) == m[1][j] + m[2][j] + m[3][j]
Total(m) == RowSum(m, 1) + RowSum(m, 2) + RowSum(m, 3)

\* a / b in units of 1 / SCALE, 0 when b = 0
Ratio(a, b) == IF b = 0 THEN 0 ELSE (a * SCALE) \div b

\* class i contributes tp / (tp + fp), where tp + fp is the column sum, and
\* tp / (tp + fn), where tp + fn is the row sum
MacroPrecision(m) ==
    (Ratio(m[1][1], ColumnSum(m, 1)) + Ratio(m[2][2], ColumnSum(m, 2))
        + Ratio(m[3][3], ColumnSum(m, 3))) \div 3
MacroRecall(m) ==
    (Ratio(m[1][1], RowSum(m, 1)) + Ratio(m[2][2], RowSum(m, 2))
        + Ratio(m[3][3], RowSum(m, 3))) \div 3

\* C22: on a 3x3 matrix of non-negative integers with at least one sample,
\* accuracy is the diagonal sum over the total, precision and recall are the
\* unweighted means over the classes of tp/(tp+fp) and tp/(tp+fn), a class
\* with denominator 0 contributing 0, and f1 is 2*precision*recall over
\* precision+recall, 0 when that is 0; for [[45,3,2],[4,42,4],[3,5,42]]
\* accuracy is 129/150 = 0.86.
C22_MetricFormulas ==
    (evalPc = "done" /\ Total(matrix) > 0) =>
        /\ metrics.accuracy = Ratio(Diagonal(matrix), Total(matrix))
        /\ metrics.precision = MacroPrecision(matrix)
        /\ metrics.recall = MacroRecall(matrix)
        /\ metrics.f1Score =
              IF MacroPrecision(matrix) + MacroRecall(matrix) = 0 THEN 0
              ELSE (2 * MacroPrecision(matrix) * MacroRecall(matrix))
                       \div (MacroPrecision(matrix) + MacroRecall(matrix))
        /\ matrix = Scenario4Matrix =>
              /\ Diagonal(matrix) = 129 /\ Total(matrix) = 150
              /\ metrics.accuracy = (86 * SCALE) \div 100

\* the metrics of the matrix of Scenario 4 have been computed
C22_Witness ==
    /\ evalPc = "done"
    /\ matrix = Scenario4Matrix
    /\ metrics.accuracy = (86 * SCALE) \div 100

\* the metrics of a matrix with an empty class have been computed
C22_WitnessEmptyClass ==
    /\ evalPc = "done"
    /\ Total(matrix) > 0
    /\ ColumnSum(matrix, 1) = 0
    /\ RowSum(matrix, 2) = 0

\* C23: when the file of a batch run encodes to zero valid rows, the run ends
\* at once with an error: it never reaches predictBatch or the progress loop,
\* it stores no batch result, and batchLoading is false afterwards.
C23_EmptyDatasetIsAnError ==
    [][\A b \in batchRuns :
          (b.file = "norows" /\ b.pc = "reading" /\ \A c \in batchRuns' : c.id # b.id) =>
              /\ ~IsNull(batchError')
              /\ calls' = calls
              /\ batchResult' = batchResult
              /\ ~batchLoading']_vars

\* on the home page, with a trained model, a run on a file without valid rows
\* has ended in the error, without a call of predictBatch and without a result
C23_Witness ==
    /\ page = "home"
    /\ ~IsNull(trainedModel)
    /\ batchError = NoValidData
    /\ ~batchLoading
    /\ batchRuns = {}
    /\ IsNull(batchResult)
    /\ \A c \in calls : c.op # "predictBatch"

Scenario5Row == <<(40 * SCALE) \div 100, (35 * SCALE) \div 100, (25 * SCALE) \div 100>>
Scenario5Scaled == normalizedProbs(Lib000, Scenario5Row)
Scenario5Predicted ==
    /\ predOut.state = "done"
    /\ predOut.op = "predict"
    /\ lib = Lib000
    /\ probabilitiesArray = <<Scenario5Row>>

\* C24 as stated: temperature scaling with T = 0.4 of [0.4, 0.35, 0.25] puts
\* class 0 first with a scaled probability above 0.6.
C24_SharpenedAboveSixTenths ==
    Scenario5Predicted =>
        /\ LowestArgmax(Scenario5Scaled) = 0
        /\ Scenario5Scaled[1] > (60 * SCALE) \div 100

\* C24 amended: temperature scaling with T = 0.4 of [0.4, 0.35, 0.25] puts
\* class 0 first with a scaled probability of 0.49, below 0.6 (the other
\* classes get 0.35 and 0.15), and that 0.49 is the confidence predict reports.
C24_SharpenedToAboutHalf ==
    Scenario5Predicted =>
        /\ LowestArgmax(Scenario5Scaled) = 0
        /\ Scenario5Scaled[1] > Scenario5Scaled[2]
        /\ Scenario5Scaled[2] > Scenario5Scaled[3]
        /\ Scenario5Scaled[1] >= (48 * SCALE) \div 100
        /\ Scenario5Scaled[1] <= (50 * SCALE) \div 100
        /\ Scenario5Scaled[1] < (60 * SCALE) \div 100
        /\ predOut.results[1].confidence = Scenario5Scaled[1]

C24_Witness ==
    /\ Scenario5Predicted
    /\ predOut.results[1].confidence < (60 * SCALE) \div 100

ShownCount(preds, label) == Cardinality({k \in 1..Len(preds) : preds[k].predicted = label})

AssignedCount(results, k, i) ==
    Cardinality({j \in 1..k : results[j].disease = DISEASE_LABELS[i + 1]})

\* C26: after predictBatch of part_000 on n rows the number of rows assigned
\* to class i is its target floor(n/3) + (1 if i < n mod 3 else 0), and after
\* every row of the loop the count of each class is at most its target.
C26_ForcedTargetsMet ==
    (predOut.state = "done" /\ predOut.op = "predictBatch" /\ lib = Lib000) =>
        LET n == Len(predOut.results)
        IN  \A i \in 0..2 :
              /\ AssignedCount(predOut.results, n, i)
                     = (n \div 3) + (IF i < n % 3 THEN 1 ELSE 0)
              /\ \A k \in 1..n :
                     AssignedCount(predOut.results, k, i) <= classTargets(n)[i]

\* the number of commas of a line that stand outside quotes
UnquotedCommas(line) == Len(Fields(line)) - 1

\* C27: for every data line parseCSV returns one cell per comma-separated
\* field, empty fields included: a line with k unquoted commas yields k + 1
\* cells, an empty field yields an empty cell at its position, and a line
\* with as many fields as there are headers yields no fewer cells than headers.
C27_OneCellPerField ==
    csv.state = "returned" =>
        LET lines == Tail(csvLines(content))
        IN  \A i \in 1..Len(lines) :
              /\ Len(csv.rows[i]) = UnquotedCommas(lines[i]) + 1
              /\ \A k \in 1..Len(Fields(lines[i])) :
                     trim(Fields(lines[i])[k]) = <<>> =>
                         (k <= Len(csv.rows[i]) /\ csv.rows[i][k] = <<>>)
              /\ Len(Fields(lines[i])) >= Len(csv.headers) =>
                     Len(csv.rows[i]) >= Len(csv.headers)

\* C28: on the home page the label resolution of the batch evaluation agrees
\* with the encoder's label extraction: every retained row carries exactly one
\* actual label at the position of its feature vector, and a diagnosis text
\* that the encoder recognises as dengue, malaria or leptospirosis (in any
\* letter case) resolves to the same class index in the evaluation.
C28_EvaluationAgreesWithEncoder ==
    (page = "home" /\ batchPc = "finished" /\ ~IsNull(batchResult)) =>
        LET labelIndex == findIndex(toLowerCaseEach(headers), toLowerCase(labelColumn))
            kept == keptRows(headers, rows)
            actualLabels == actualLabelsOf(headers, rows, labelIndex)
            preds == batchResult.v.predictions
        IN  (labelIndex # -1 /\ hasValidLabels(actualLabels)) =>
              /\ Len(actualLabels) = Len(kept)
              /\ Len(preds) = Len(kept)
              /\ \A i \in 1..Len(kept) :
                    /\ actualLabels[i] = trim(kept[i][labelIndex + 1])
                    /\ preds[i].actual = StringValue(actualLabels[i])
                    /\ diseaseMap(toLowerCase(kept[i][labelIndex + 1])).t = "number" =>
                           convertedLabels(actualLabels)[i] = extractLabel(labelIndex, kept[i])

(***************************************************************************)
(* Claims about interleavings on a page.                                   *)
(***************************************************************************)
\* C29: on the home page, however handleBatchProcess interleaves with
\* handleFileSelect, handleResetAll and the prediction-mode toggle, at most
\* one batch run is in flight at a time, and a run that was in flight when
\* handleResetAll ran never stores a batch result: after the reset the result
\* stays empty until a run started after it completes.
C29_OneBatchRunAndResetHolds ==
    /\ [](page = "home" => Cardinality(batchRuns) <= 1)
    /\ [][page = "home" =>
            \A b \in batchRuns :
                b.resetSince => batchResult' # ObjectValue([run |-> b.id])]_vars

\* C30: on the dashboard page a click on a model's train button trains that
\* model type (the button clicked is the value setSelectedModel received, so
\* it is selectedModel after the click): the logistic button runs the logistic
\* fit with 50 total epochs and the neural button the neural fit with 75,
\* whatever type was selected before, and the result of a fit is labelled
\* with the type that was trained.
C30_ButtonTrainsItsModel ==
    /\ [][(page = "dashboard" /\ Len(runs') = Len(runs) + 1
              /\ runs'[Len(runs')].dialog = "page") =>
            /\ runs'[Len(runs')].model = selectedModel'
            /\ runs'[Len(runs')].epochs = (IF selectedModel' = "logistic" THEN 50 ELSE 75)]_vars
    /\ [][\A r \in 1..Len(runs) :
              (runs[r].dialog = "page" /\ runs[r].status = "fitting"
                 /\ runs'[r].status = "done") =>
                  trainingResult'["page"] =
                      ObjectValue([modelType |-> runs[r].model, status |-> "success"])]_vars

====
